-------------------------- MODULE TypedReadsProofs --------------------------
(***************************************************************************)
(* Proofs about TypedReads for every set of rows and requests, every       *)
(* number of workers and every growth factor of the buffers.               *)
(***************************************************************************)
EXTENDS TypedReads, CollectorProofs, SequenceTheorems

-----------------------------------------------------------------------------
(* Sequences made from sets.                                               *)

LEMMA SeqOfFunction ==
  ASSUME NEW S, NEW n \in Nat, NEW f \in [1..n -> S]
  PROVE  f \in Seq(S) /\ Len(f) = n /\ DOMAIN f = 1..n
<1>1. f \in Seq(S)
  BY SeqDef
<1>2. DOMAIN f = 1..n
  OBVIOUS
<1>3. Len(f) \in Nat /\ DOMAIN f = 1..Len(f)
  BY <1>1, LenProperties
<1>4. Len(f) = n
  BY <1>2, <1>3
<1> QED BY <1>1, <1>2, <1>4

LEMMA FiniteImage ==
  ASSUME NEW S, IsFiniteSet(S), NEW T, NEW f \in [S -> T]
  PROVE  IsFiniteSet({f[x] : x \in S})
<1>1. f \in Surjection(S, {f[x] : x \in S})
  BY DEF Surjection
<1> QED BY <1>1, FS_Surjection

\* Sorted puts every member at the position of its rank.
LEMMA SortedProperties ==
  ASSUME NEW S, IsFiniteSet(S), NEW R, Total(S, R)
  PROVE  /\ Sorted(S, R) \in Seq(S)
         /\ Len(Sorted(S, R)) = Cardinality(S)
         /\ DOMAIN Sorted(S, R) = 1..Cardinality(S)
         /\ \A k \in 1..Cardinality(S) : /\ Sorted(S, R)[k] \in S
                                         /\ Rank(S, R, Sorted(S, R)[k]) = k - 1
         /\ \A x \in S : Rank(S, R, x) + 1 \in 1..Cardinality(S)
                         /\ Sorted(S, R)[Rank(S, R, x) + 1] = x
<1> DEFINE c == Cardinality(S)
           q == Sorted(S, R)
<1>1. c \in Nat
  BY RankType
<1>2. q = [n \in 1..c |-> CHOOSE a \in S : Rank(S, R, a) = n - 1]
  BY DEF Sorted, Rank, Below
<1>3. ASSUME NEW k \in 1..c PROVE q[k] \in S /\ Rank(S, R, q[k]) = k - 1
  <2>1. k - 1 \in 0..(Cardinality(S) - 1)
    BY <1>1
  <2>2. \E a \in S : Rank(S, R, a) = k - 1
    BY <2>1, RankOnto
  <2> HIDE DEF q
  <2>3. q[k] = CHOOSE a \in S : Rank(S, R, a) = k - 1
    BY <1>2
  <2> QED BY <2>2, <2>3
<1>4. q \in [1..c -> S]
  <2> HIDE DEF c, q
  <2> QED BY <1>2, <1>3
<1>5. q \in Seq(S) /\ Len(q) = c /\ DOMAIN q = 1..c
  <2> HIDE DEF c, q
  <2> QED BY <1>1, <1>4, SeqOfFunction
<1>6. ASSUME NEW x \in S PROVE Rank(S, R, x) + 1 \in 1..c /\ q[Rank(S, R, x) + 1] = x
  <2> DEFINE k == Rank(S, R, x) + 1
  <2>1. Rank(S, R, x) \in Nat /\ Rank(S, R, x) < c
    BY RankType, RankBound
  <2>2. k \in 1..c /\ k - 1 = Rank(S, R, x)
    BY <1>1, <2>1
  <2>3. q[k] \in S /\ Rank(S, R, q[k]) = Rank(S, R, x)
    BY <1>3, <2>2
  <2>4. q[k] = x
    BY <2>3, RankOrders
  <2> QED BY <2>2, <2>4
<1> QED
  BY <1>3, <1>5, <1>6

\* The best n sorted are the beginning of all of them sorted.
LEMMA SortedTop ==
  ASSUME NEW S, IsFiniteSet(S), NEW R, Total(S, R), NEW n \in Nat
  PROVE  /\ Len(Sorted(Top(S, R, n), R)) = IF n <= Cardinality(S) THEN n ELSE Cardinality(S)
         /\ \A k \in 1..Len(Sorted(Top(S, R, n), R)) :
              k \in 1..Cardinality(S) /\ Sorted(Top(S, R, n), R)[k] = Sorted(S, R)[k]
<1> DEFINE T == Top(S, R, n)
           c == IF n <= Cardinality(S) THEN n ELSE Cardinality(S)
<1>1. IsFiniteSet(T) /\ T \in SUBSET S /\ Cardinality(T) = c /\ Cardinality(S) \in Nat
  BY TopSize, RankType
<1>2. Total(T, R)
  BY <1>1, TotalSubset
<1>3. Len(Sorted(T, R)) = c
  BY <1>1, <1>2, SortedProperties
<1>4. ASSUME NEW k \in 1..c
      PROVE  k \in 1..Cardinality(S) /\ Sorted(T, R)[k] = Sorted(S, R)[k]
  <2> DEFINE x == Sorted(T, R)[k]
  <2>1. k \in 1..Cardinality(S)
    BY <1>1
  <2>2. x \in T /\ Rank(T, R, x) = k - 1
    <3> HIDE DEF T, c
    <3>1. \A j \in 1..Cardinality(T) : /\ Sorted(T, R)[j] \in T
                                       /\ Rank(T, R, Sorted(T, R)[j]) = j - 1
      BY <1>1, <1>2, SortedProperties
    <3> QED BY <1>1, <3>1
  <2> HIDE DEF x
  <2>3. Rank(S, R, x) = k - 1
    BY <2>2, RankInTop
  <2>4. x \in S
    BY <1>1, <2>2
  <2>5. Sorted(S, R)[(k - 1) + 1] = x
    BY <2>3, <2>4, SortedProperties
  <2>6. (k - 1) + 1 = k
    OBVIOUS
  <2> QED BY <2>1, <2>5, <2>6 DEF x
<1> QED
  BY <1>3, <1>4

-----------------------------------------------------------------------------
(* Plans and documents.                                                    *)

Collectors == {"block", "native", "scored", "materialized", "score", "doc_order"}

Orders == Seq([key : {"pk", "val", "_score"}, asc : BOOLEAN])

\* A plan with a cursor sorts natively by stored columns without NULL, the key
\* among them.
PlanOK ==
  /\ plan.order \in Orders
  /\ plan.limit \in Nat \ {0}
  /\ plan.collector \in Collectors
  /\ {plan.cursor, plan.nullable, plan.minScore} \subseteq BOOLEAN
  /\ plan.cursor =>
       /\ plan.collector \in {"block", "native"}
       /\ \A i \in DOMAIN plan.order : /\ plan.order[i].key \in {"pk", "val"}
                                       /\ plan.order[i].key = "val" => ~plan.nullable
       /\ \E i \in DOMAIN plan.order : plan.order[i].key = "pk"

Cell == IF plan.nullable THEN Values \cup {Null} ELSE Values

Document == [pk : Keys, val : Cell, live : BOOLEAN]

\* Every planned task is a range of documents of one segment, and every document
\* lies in exactly one of them.
Planned(segs, ts) ==
  /\ \A t \in ts : /\ t.seg \in DOMAIN segs
                   /\ t.from \in Nat /\ t.to \in Nat
                   /\ t.from <= t.to /\ t.to <= Len(segs[t.seg])
  /\ \A s \in DOMAIN segs : \A i \in DOMAIN segs[s] :
       \E r \in ts : {t \in ts : t.seg = s /\ t.from < i /\ i <= t.to} = {r}

\* What a reader shows, what a searcher keeps, and the tasks of a page.
Layout ==
  /\ PlanOK
  /\ segments \in Seq(Seq(Document))
  /\ searcher \in Seq(Seq(Document))
  /\ phase \in {"idle", "collecting", "done"}
  /\ phase = "collecting" => Planned(searcher, tasks)

LEMMA LayoutPartitions == Layout => RangesPartition
<1> SUFFICES ASSUME Layout, phase = "collecting",
                    NEW s \in DOMAIN searcher, NEW i \in DOMAIN searcher[s]
             PROVE  Cardinality({t \in tasks : t.seg = s /\ t.from < i /\ i <= t.to}) = 1
  BY DEF RangesPartition
<1>1. PICK r \in tasks : {t \in tasks : t.seg = s /\ t.from < i /\ i <= t.to} = {r}
  BY DEF Layout, Planned
<1> QED BY <1>1, FS_Singleton

LEMMA OrderType ==
  ASSUME NEW o \in Orders
  PROVE  /\ Len(o) \in Nat /\ DOMAIN o = 1..Len(o)
         /\ \A i \in DOMAIN o : o[i].key \in {"pk", "val", "_score"} /\ o[i].asc \in BOOLEAN
<1>1. /\ Len(o) \in Nat /\ DOMAIN o = 1..Len(o)
      /\ o \in [1..Len(o) -> [key : {"pk", "val", "_score"}, asc : BOOLEAN]]
  BY LenProperties DEF Orders
<1> QED BY <1>1

LEMMA StableOrderType ==
  ASSUME NEW r, r.order \in Orders
  PROVE  StableTypedOrder(r) \in Orders
<1>1. [key |-> "pk", asc |-> TRUE] \in [key : {"pk", "val", "_score"}, asc : BOOLEAN]
  OBVIOUS
<1>2. Append(r.order, [key |-> "pk", asc |-> TRUE]) \in Orders
  BY <1>1, AppendProperties DEF Orders
<1> QED BY <1>2 DEF StableTypedOrder

\* Without a score in it, a stable order that is not empty holds the key.
LEMMA StableOrderHasKey ==
  ASSUME NEW r, r.order \in Orders, r.order # <<>>,
         \A i \in DOMAIN StableTypedOrder(r) : StableTypedOrder(r)[i].key # "_score"
  PROVE  \E i \in DOMAIN StableTypedOrder(r) : StableTypedOrder(r)[i].key = "pk"
<1> DEFINE spec == [key |-> "pk", asc |-> TRUE]
           more == Append(r.order, spec)
<1>1. CASE \E i \in DOMAIN r.order : r.order[i].key \in {"_score", "pk"}
  <2>1. StableTypedOrder(r) = r.order
    BY <1>1 DEF StableTypedOrder
  <2> QED BY <1>1, <2>1
<1>2. CASE ~ \E i \in DOMAIN r.order : r.order[i].key \in {"_score", "pk"}
  <2>1. StableTypedOrder(r) = more
    BY <1>2 DEF StableTypedOrder
  <2>2. spec \in [key : {"pk", "val", "_score"}, asc : BOOLEAN]
    OBVIOUS
  <2>3. Len(r.order) \in Nat
    BY LenProperties DEF Orders
  <2>4. more[Len(r.order) + 1] = spec /\ Len(more) = Len(r.order) + 1 /\ more \in Orders
    BY <2>2, AppendProperties DEF Orders
  <2>5. Len(r.order) + 1 \in DOMAIN more
    BY <2>3, <2>4, LenProperties DEF Orders
  <2>6. more[Len(r.order) + 1].key = "pk"
    BY <2>4
  <2> QED BY <2>1, <2>5, <2>6
<1> QED BY <1>1, <1>2

LEMMA PlanType ==
  ASSUME NEW c \in Cases, plan = Plan(c.def, c.req)
  PROVE  PlanOK
<1> DEFINE def == c.def
           r == c.req
           order == StableTypedOrder(r)
           collector == Collector(def, r, order)
<1>1. /\ r.order \in Orders /\ r.limit \in Nat \ {0}
      /\ {def.nullable, def.indexed, r.minScore, r.showScore} \subseteq BOOLEAN
  BY ListingAssumption DEF Orders
<1>2. order \in Orders
  BY <1>1, StableOrderType
<1>3. collector \in Collectors
  BY DEF Collector, Collectors
<1>4. /\ plan.nullable = def.nullable /\ plan.minScore = r.minScore /\ plan.limit = r.limit
      /\ plan.collector = collector
      /\ plan.cursor = CursorPaginationEnabled(def, r, order)
      /\ plan.order = CASE collector = "score"     -> <<[key |-> "_score", asc |-> FALSE]>>
                        [] collector = "doc_order" -> <<>>
                        [] OTHER                   -> order
  BY DEF Plan
<1>5. plan.order \in Orders
  <2>1. <<>> \in Orders
    BY EmptySeq DEF Orders
  <2>2. <<[key |-> "_score", asc |-> FALSE]>> \in Orders
    BY DEF Orders
  <2> HIDE DEF order, collector
  <2> QED BY <1>2, <1>4, <2>1, <2>2
<1>6. CursorPaginationEnabled(def, r, order) \in BOOLEAN
  BY DEF CursorPaginationEnabled
<1>7. ASSUME plan.cursor
      PROVE  /\ plan.order = order /\ r.order # <<>>
             /\ collector \in {"block", "native"}
             /\ \A i \in DOMAIN order : /\ order[i].key # "_score"
                                        /\ order[i].key = "pk" \/ ~def.nullable
  <2>1. /\ r.order # <<>> /\ NativeSort(def, r, order)
        /\ \A i \in DOMAIN order : order[i].key = "pk" \/ (def.indexed /\ ~def.nullable)
    <3> HIDE DEF order, collector
    <3>1. CursorPaginationEnabled(def, r, order)
      BY <1>4, <1>7
    <3> QED BY <3>1 DEF CursorPaginationEnabled
  <2>2. collector \in {"block", "native"}
    BY <2>1 DEF Collector
  <2>3. plan.order = order
    BY <1>4, <2>2
  <2>4. \A i \in DOMAIN order : order[i].key # "_score"
    BY <2>1 DEF NativeSort
  <2> HIDE DEF order, collector
  <2> QED BY <2>1, <2>2, <2>3, <2>4
<1>8. ASSUME plan.cursor
      PROVE  /\ plan.collector \in {"block", "native"}
             /\ \A i \in DOMAIN plan.order : /\ plan.order[i].key \in {"pk", "val"}
                                             /\ plan.order[i].key = "val" => ~plan.nullable
             /\ \E i \in DOMAIN plan.order : plan.order[i].key = "pk"
  <2>1. \E i \in DOMAIN order : order[i].key = "pk"
    BY <1>1, <1>7, <1>8, StableOrderHasKey
  <2> HIDE DEF order, collector
  <2>2. \A i \in DOMAIN order : order[i].key \in {"pk", "val", "_score"}
    BY <1>2, OrderType
  <2> QED BY <1>4, <1>7, <1>8, <2>1, <2>2
<1> HIDE DEF order, collector
<1> QED BY <1>1, <1>3, <1>4, <1>5, <1>6, <1>8 DEF PlanOK

-----------------------------------------------------------------------------
(* Segments.                                                               *)

LEMMA SegmentFacts ==
  ASSUME NEW D, NEW segs \in Seq(Seq(D))
  PROVE  /\ Len(segs) \in Nat /\ DOMAIN segs = 1..Len(segs)
         /\ \A s \in DOMAIN segs : /\ segs[s] \in Seq(D)
                                   /\ Len(segs[s]) \in Nat
                                   /\ DOMAIN segs[s] = 1..Len(segs[s])
                                   /\ \A i \in DOMAIN segs[s] : segs[s][i] \in D
<1>1. Len(segs) \in Nat /\ DOMAIN segs = 1..Len(segs) /\ segs \in [1..Len(segs) -> Seq(D)]
  BY LenProperties
<1>2. ASSUME NEW s \in DOMAIN segs
      PROVE  /\ segs[s] \in Seq(D)
             /\ Len(segs[s]) \in Nat
             /\ DOMAIN segs[s] = 1..Len(segs[s])
             /\ \A i \in DOMAIN segs[s] : segs[s][i] \in D
  <2>1. segs[s] \in Seq(D)
    BY <1>1
  <2>2. /\ Len(segs[s]) \in Nat /\ DOMAIN segs[s] = 1..Len(segs[s])
        /\ segs[s] \in [1..Len(segs[s]) -> D]
    BY <2>1, LenProperties
  <2> QED BY <2>1, <2>2
<1> QED BY <1>1, <1>2

LEMMA PlannedTasksPartition ==
  ASSUME NEW D, NEW segs \in Seq(Seq(D))
  PROVE  Planned(segs, PlannedTasks(segs))
<1> DEFINE sizes == [s \in DOMAIN segs |-> Len(segs[s])]
           whole == {[seg |-> s, from |-> 0, to |-> sizes[s]] : s \in DOMAIN segs}
<1>1. /\ Len(segs) \in Nat /\ DOMAIN segs = 1..Len(segs)
      /\ \A s \in DOMAIN segs : Len(segs[s]) \in Nat /\ DOMAIN segs[s] = 1..Len(segs[s])
  BY SegmentFacts
<1>2. sizes \in [1..Len(segs) -> Nat] /\ DOMAIN sizes = DOMAIN segs
  BY <1>1
<1>3. Len(sizes) \in Nat
  BY <1>1, <1>2, SeqOfFunction
<1>4. \A s \in DOMAIN segs : sizes[s] = Len(segs[s]) /\ sizes[s] \in Nat
  BY <1>1
<1>5. PlannedTasks(segs) = SearcherDocRanges(sizes, Workers) \/ PlannedTasks(segs) = whole
  BY DEF PlannedTasks
<1> HIDE DEF sizes
<1>6. CASE PlannedTasks(segs) = SearcherDocRanges(sizes, Workers)
  <2>1. ASSUME NEW t \in PlannedTasks(segs)
        PROVE  /\ t.seg \in DOMAIN segs
               /\ t.from \in Nat /\ t.to \in Nat /\ t.from <= t.to /\ t.to <= Len(segs[t.seg])
    <3>1. /\ t.seg \in DOMAIN sizes
          /\ t.from \in Nat /\ t.to \in Nat /\ t.from <= t.to /\ t.to <= sizes[t.seg]
      BY <1>2, <1>3, <1>4, <1>6, SearcherDocRangesType, RangesAssumption
    <3> QED BY <1>2, <1>4, <3>1
  <2>2. ASSUME NEW s \in DOMAIN segs, NEW i \in DOMAIN segs[s]
        PROVE  \E r \in PlannedTasks(segs) :
                 {t \in PlannedTasks(segs) : t.seg = s /\ t.from < i /\ i <= t.to} = {r}
    <3>1. s \in DOMAIN sizes /\ sizes[s] \in Nat /\ i \in 1..sizes[s]
      BY <1>1, <1>2, <1>4
    <3> QED BY <1>3, <1>6, <3>1, SearcherDocRangesPartition, RangesAssumption
  <2> QED BY <2>1, <2>2 DEF Planned
<1>7. CASE PlannedTasks(segs) = whole
  <2>1. ASSUME NEW t \in whole
        PROVE  /\ t.seg \in DOMAIN segs
               /\ t.from \in Nat /\ t.to \in Nat /\ t.from <= t.to /\ t.to <= Len(segs[t.seg])
    BY <1>4
  <2>2. ASSUME NEW s \in DOMAIN segs, NEW i \in DOMAIN segs[s]
        PROVE  \E r \in whole : {t \in whole : t.seg = s /\ t.from < i /\ i <= t.to} = {r}
    <3> DEFINE r == [seg |-> s, from |-> 0, to |-> sizes[s]]
    <3>1. i \in 1..sizes[s] /\ sizes[s] \in Nat
      BY <1>1, <1>4
    <3>2. r \in whole /\ r.seg = s /\ r.from < i /\ i <= r.to
      BY <3>1
    <3>3. \A t \in whole : t.seg = s => t = r
      OBVIOUS
    <3> QED BY <3>2, <3>3
  <2> QED BY <1>7, <2>1, <2>2 DEF Planned
<1> QED BY <1>5, <1>6, <1>7

LEMMA KillType ==
  ASSUME NEW k, segments \in Seq(Seq(Document))
  PROVE  /\ Kill(k) \in Seq(Seq(Document))
         /\ DOMAIN Kill(k) = DOMAIN segments
         /\ \A s \in DOMAIN segments : DOMAIN Kill(k)[s] = DOMAIN segments[s]
<1> DEFINE kill(d) == IF d.pk = k THEN [d EXCEPT !.live = FALSE] ELSE d
           segs == Kill(k)
<1>1. /\ Len(segments) \in Nat /\ DOMAIN segments = 1..Len(segments)
      /\ \A s \in DOMAIN segments : /\ Len(segments[s]) \in Nat
                                    /\ DOMAIN segments[s] = 1..Len(segments[s])
                                    /\ \A i \in DOMAIN segments[s] : segments[s][i] \in Document
  BY SegmentFacts
<1>2. ASSUME NEW s \in DOMAIN segments
      PROVE  segs[s] = [i \in DOMAIN segments[s] |-> kill(segments[s][i])]
  BY DEF Kill
<1>3. ASSUME NEW s \in DOMAIN segments
      PROVE  segs[s] \in Seq(Document) /\ DOMAIN segs[s] = DOMAIN segments[s]
  <2>1. \A d \in Document : kill(d) \in Document
    BY DEF Document
  <2>2. \A i \in DOMAIN segments[s] : kill(segments[s][i]) \in Document
    BY <1>1, <2>1
  <2> DEFINE seg == segs[s]
  <2>3. seg = [i \in DOMAIN segments[s] |-> kill(segments[s][i])]
    BY <1>2
  <2>4. DOMAIN segments[s] = 1..Len(segments[s])
    BY <1>1
  <2> HIDE DEF seg, kill
  <2>5. seg \in [1..Len(segments[s]) -> Document]
    BY <2>2, <2>3, <2>4
  <2> QED BY <1>1, <2>5, SeqOfFunction DEF seg
<1>4. DOMAIN segs = DOMAIN segments /\ segs = [s \in DOMAIN segments |-> segs[s]]
  BY DEF Kill
<1> HIDE DEF segs
<1>5. segs \in [1..Len(segments) -> Seq(Document)]
  BY <1>1, <1>3, <1>4
<1>6. segs \in Seq(Seq(Document))
  BY <1>1, <1>5, SeqOfFunction
<1> QED BY <1>3, <1>4, <1>6 DEF segs

LEMMA DocumentType ==
  ASSUME NEW k \in Keys, NEW v \in Cell
  PROVE  Doc(k, v) \in Document
BY DEF Doc, Document

LEMMA LayoutsType ==
  ASSUME PlanOK, NEW segs \in Layouts
  PROVE  segs \in Seq(Seq(Document))
<1> DEFINE n == Cardinality(Keys)
           docs(r) == [i \in 1..n |-> Doc(i, r[i])]
           cut(r, m) == IF m = n THEN <<docs(r)>>
                        ELSE <<SubSeq(docs(r), 1, m), SubSeq(docs(r), m + 1, n)>>
<1>1. n \in Nat \ {0} /\ Keys = 1..n
  BY ListingAssumption, FS_CardinalityType, FS_EmptySet
<1>2. PICK r \in [Keys -> Cell], m \in {n - 1, n} : segs = cut(r, m)
  BY DEF Layouts, Cell
<1>3. docs(r) \in [1..n -> Document]
  BY <1>1, <1>2, DocumentType
<1> DEFINE d == docs(r)
<1>4. d \in Seq(Document) /\ Len(d) = n
  BY <1>1, <1>3, SeqOfFunction
<1>5. segs = IF m = n THEN <<d>> ELSE <<SubSeq(d, 1, m), SubSeq(d, m + 1, n)>>
  BY <1>2
<1> HIDE DEF d
<1>6. \A i \in 1..n : d[i] \in Document
  BY <1>3 DEF d
<1>7. CASE m = n
  BY <1>4, <1>5, <1>7
<1>8. CASE m = n - 1
  <2>1. m \in Int /\ n \in Int /\ m + 1 \in Int /\ 1 \in Int
    BY <1>1, <1>8
  <2>2. \A i \in 1..m : d[i] \in Document
    BY <1>1, <1>6, <1>8
  <2>3. \A i \in (m + 1)..n : d[i] \in Document
    BY <1>1, <1>6, <1>8
  <2>4. SubSeq(d, 1, m) \in Seq(Document) /\ SubSeq(d, m + 1, n) \in Seq(Document)
    BY <2>1, <2>2, <2>3, SubSeqProperties
  <2>5. m # n
    BY <1>1, <1>8
  <2> QED BY <1>5, <2>4, <2>5
<1> QED BY <1>2, <1>7, <1>8

-----------------------------------------------------------------------------
(* The merge groups of the optimizer.                                      *)

LEMMA NumDocsType ==
  ASSUME segments \in Seq(Seq(Document)), NEW s \in DOMAIN segments
  PROVE  NumDocs(s) \in Nat
<1>1. Len(segments[s]) \in Nat /\ DOMAIN segments[s] = 1..Len(segments[s])
  BY SegmentFacts
<1>2. IsFiniteSet(DOMAIN segments[s])
  BY <1>1, FS_Interval
<1>3. {i \in DOMAIN segments[s] : segments[s][i].live} \in SUBSET DOMAIN segments[s]
  OBVIOUS
<1>4. IsFiniteSet({i \in DOMAIN segments[s] : segments[s][i].live})
  BY <1>2, <1>3, FS_Subset
<1> QED BY <1>4, FS_CardinalityType DEF NumDocs

Group == [docs : Nat, ids : Seq(DOMAIN segments)]

\* Groups after segment s has been added to group g.
Placed(groups, g, s) ==
  [groups EXCEPT ![g] = [docs |-> groups[g].docs + NumDocs(s), ids |-> Append(groups[g].ids, s)]]

Ids(groups, n) == [i \in 1..n |-> groups[i].ids]

\* min_by_key finds a group, and the segment is appended to it.
LEMMA SmallestGroup ==
  ASSUME NEW n \in Nat \ {0}, NEW groups \in [1..n -> Group], NEW s
  PROVE  \E g \in 1..n : AddToGroup(groups, s) = Placed(groups, g, s)
<1> DEFINE smaller(g, h) == \/ g.docs < h.docs
                            \/ g.docs = h.docs /\ Len(g.ids) < Len(h.ids)
           first(i, j) == smaller(groups[i], groups[j])
                          \/ (~smaller(groups[j], groups[i]) /\ i < j)
           S == 1..n
           R == {p \in S \X S : first(p[1], p[2])}
           smallest == CHOOSE i \in DOMAIN groups :
                         \A j \in DOMAIN groups :
                           j = i \/ smaller(groups[i], groups[j])
                           \/ (~smaller(groups[j], groups[i]) /\ i < j)
<1>1. \A i \in S : groups[i].docs \in Nat /\ Len(groups[i].ids) \in Nat
  <2>1. \A i \in S : groups[i].docs \in Nat /\ groups[i].ids \in Seq(DOMAIN segments)
    BY DEF Group
  <2> QED BY <2>1, LenProperties
<1>2. \A i, j \in S : <<i, j>> \in R <=> first(i, j)
  OBVIOUS
<1>3. Total(S, R)
  <2> HIDE DEF R
  <2>1. \A i \in S : ~first(i, i)
    BY <1>1
  <2>2. \A i, j \in S : i = j \/ first(i, j) \/ first(j, i)
    BY <1>1
  <2>3. ASSUME NEW i \in S, NEW j \in S, NEW k \in S, first(i, j), first(j, k)
        PROVE  first(i, k)
    <3> DEFINE x(g) == groups[g].docs
               y(g) == Len(groups[g].ids)
    <3>1. /\ x(i) \in Nat /\ x(j) \in Nat /\ x(k) \in Nat
          /\ y(i) \in Nat /\ y(j) \in Nat /\ y(k) \in Nat
      BY <1>1
    <3>2. /\ x(i) < x(j) \/ (x(i) = x(j) /\ y(i) < y(j))
             \/ (x(i) = x(j) /\ y(i) = y(j) /\ i < j)
          /\ x(j) < x(k) \/ (x(j) = x(k) /\ y(j) < y(k))
             \/ (x(j) = x(k) /\ y(j) = y(k) /\ j < k)
      BY <2>3, <3>1
    <3> HIDE DEF x, y
    <3>3. x(i) < x(k) \/ (x(i) = x(k) /\ y(i) < y(k)) \/ (x(i) = x(k) /\ y(i) = y(k) /\ i < k)
      BY <3>1, <3>2
    <3> QED BY <3>1, <3>3 DEF x, y
  <2> HIDE DEF first
  <2> QED BY <1>2, <2>1, <2>2, <2>3 DEF Total
<1>4. IsFiniteSet(S) /\ Cardinality(S) = n
  BY FS_Interval
<1>5. PICK i \in S : Rank(S, R, i) = 0
  <2>1. 0 \in 0..(Cardinality(S) - 1)
    BY <1>4
  <2> HIDE DEF S, R
  <2> QED BY <1>3, <1>4, <2>1, RankOnto
<1>6. Below(S, R, i) = {}
  BY <1>4, <1>5, RankType, FS_EmptySet DEF Rank
<1>7. \A j \in S : j = i \/ first(i, j)
  <2>1. \A j \in S : <<j, i>> \notin R
    BY <1>6 DEF Below
  <2> HIDE DEF R
  <2> QED BY <1>2, <1>3, <2>1 DEF Total
<1>8. DOMAIN groups = S
  OBVIOUS
<1>9. smallest \in S
  <2>1. \E m \in DOMAIN groups : \A j \in DOMAIN groups : j = m \/ first(m, j)
    BY <1>7, <1>8
  <2>2. smallest = CHOOSE m \in DOMAIN groups : \A j \in DOMAIN groups : j = m \/ first(m, j)
    OBVIOUS
  <2> HIDE DEF first, smallest
  <2> QED BY <1>8, <2>1, <2>2
<1>10. AddToGroup(groups, s) = Placed(groups, smallest, s)
  BY DEF AddToGroup, Placed
<1> HIDE DEF smallest
<1> QED BY <1>9, <1>10

\* The groups hold the first n segments of the order, each once.
Filled(groups, order, n) ==
  /\ \A k \in DOMAIN groups : \A i \in DOMAIN groups[k] :
       \E m \in 1..n : groups[k][i] = order[m]
  /\ \A m \in 1..n : \E k \in DOMAIN groups : \E i \in DOMAIN groups[k] :
       groups[k][i] = order[m]
  /\ \A k, l \in DOMAIN groups : \A i \in DOMAIN groups[k], j \in DOMAIN groups[l] :
       groups[k][i] = groups[l][j] => k = l /\ i = j

LEMMA AddFills ==
  ASSUME NEW D, NEW n \in Nat, NEW groups \in [1..n -> Seq(D)], NEW g \in 1..n,
         NEW order \in Seq(D), NEW m \in Nat, m + 1 <= Len(order),
         \A i, j \in 1..Len(order) : order[i] = order[j] => i = j,
         Filled(groups, order, m)
  PROVE  Filled([groups EXCEPT ![g] = Append(groups[g], order[m + 1])], order, m + 1)
<1> DEFINE x == order[m + 1]
           old == groups[g]
           more == Append(old, x)
           new == [groups EXCEPT ![g] = more]
<1>1. Len(order) \in Nat /\ x \in D
  BY LenProperties, ElementOfSeq
<1>2. Len(old) \in Nat /\ DOMAIN old = 1..Len(old) /\ old \in Seq(D)
  BY LenProperties
<1>3. /\ more \in Seq(D) /\ Len(more) = Len(old) + 1
      /\ \A i \in 1..Len(old) : more[i] = old[i]
      /\ more[Len(old) + 1] = x
  BY <1>1, <1>2, AppendProperties
<1>4. DOMAIN more = 1..(Len(old) + 1)
  BY <1>3, LenProperties
<1>5. DOMAIN new = 1..n /\ new[g] = more /\ \A k \in 1..n : k # g => new[k] = groups[k]
  OBVIOUS
<1>6. DOMAIN groups = 1..n
  OBVIOUS
<1>7. /\ \A k \in 1..n : \A i \in DOMAIN groups[k] : \E a \in 1..m : groups[k][i] = order[a]
      /\ \A a \in 1..m : \E k \in 1..n : \E i \in DOMAIN groups[k] : groups[k][i] = order[a]
      /\ \A k, l \in 1..n : \A i \in DOMAIN groups[k], j \in DOMAIN groups[l] :
           groups[k][i] = groups[l][j] => k = l /\ i = j
  <2>1. Filled(groups, order, m)
    OBVIOUS
  <2> QED BY <1>6, <2>1, ZenonT(60) DEF Filled
<1>8. \A a \in 1..m : a \in 1..(m + 1) /\ order[a] # x
  <2>1. m + 1 \in 1..Len(order) /\ \A a \in 1..m : a \in 1..Len(order) /\ a # m + 1
    BY <1>1
  <2> QED BY <2>1
<1>9. ASSUME NEW k \in 1..n, NEW i \in DOMAIN groups[k] PROVE groups[k][i] # x
  <2> HIDE DEF x
  <2>1. PICK a \in 1..m : groups[k][i] = order[a]
    BY <1>7
  <2> QED BY <1>8, <2>1
<1>10. m + 1 \in 1..(m + 1) /\ order[m + 1] = x /\ \A a \in 1..(m + 1) : a \in 1..m \/ a = m + 1
  OBVIOUS
<1>11. ASSUME NEW k \in 1..n, NEW i \in DOMAIN new[k]
       PROVE  (i \in DOMAIN groups[k] /\ new[k][i] = groups[k][i])
                \/ (k = g /\ i = Len(old) + 1 /\ new[k][i] = x)
  <2>1. CASE k = g
    <3>1. i \in 1..(Len(old) + 1) /\ new[k][i] = more[i]
      BY <1>4, <1>5, <2>1
    <3>2. i \in 1..Len(old) \/ i = Len(old) + 1
      BY <1>2, <3>1
    <3> HIDE DEF more, new, x
    <3> QED BY <1>2, <1>3, <2>1, <3>1, <3>2
  <2>2. CASE k # g
    BY <1>5, <2>2
  <2> QED BY <2>1, <2>2
<1>12. ASSUME NEW k \in 1..n, NEW i \in DOMAIN groups[k]
       PROVE  i \in DOMAIN new[k] /\ new[k][i] = groups[k][i]
  <2>1. CASE k = g
    <3>1. i \in 1..Len(old) /\ new[k] = more
      BY <1>2, <1>5, <2>1
    <3> QED BY <1>2, <1>3, <1>4, <2>1, <3>1
  <2>2. CASE k # g
    BY <1>5, <2>2
  <2> QED BY <2>1, <2>2
<1>13. Len(old) + 1 \in DOMAIN new[g] /\ new[g][Len(old) + 1] = x
  BY <1>2, <1>3, <1>4, <1>5
<1> HIDE DEF more, old, x, new
<1>14. ASSUME NEW k \in 1..n, NEW i \in DOMAIN new[k]
       PROVE  \E a \in 1..(m + 1) : new[k][i] = order[a]
  <2>1. CASE i \in DOMAIN groups[k] /\ new[k][i] = groups[k][i]
    <3>1. PICK a \in 1..m : groups[k][i] = order[a]
      BY <1>7, <2>1
    <3> QED BY <1>8, <2>1, <3>1
  <2>2. CASE k = g /\ i = Len(old) + 1 /\ new[k][i] = x
    BY <1>10, <2>2
  <2> QED BY <1>11, <2>1, <2>2
<1>15. ASSUME NEW a \in 1..(m + 1)
       PROVE  \E k \in 1..n : \E i \in DOMAIN new[k] : new[k][i] = order[a]
  <2>1. CASE a \in 1..m
    <3>1. PICK k \in 1..n : \E i \in DOMAIN groups[k] : groups[k][i] = order[a]
      BY <1>7, <2>1
    <3>2. PICK i \in DOMAIN groups[k] : groups[k][i] = order[a]
      BY <3>1
    <3> QED BY <1>12, <3>2
  <2>2. CASE a = m + 1
    BY <1>10, <1>13, <2>2
  <2> QED BY <1>10, <2>1, <2>2
<1>16. ASSUME NEW k \in 1..n, NEW l \in 1..n, NEW i \in DOMAIN new[k], NEW j \in DOMAIN new[l],
              new[k][i] = new[l][j]
       PROVE  k = l /\ i = j
  <2>1. CASE /\ i \in DOMAIN groups[k] /\ new[k][i] = groups[k][i]
             /\ j \in DOMAIN groups[l] /\ new[l][j] = groups[l][j]
    <3>1. i \in DOMAIN groups[k] /\ j \in DOMAIN groups[l] /\ groups[k][i] = groups[l][j]
      BY <1>16, <2>1
    <3>2. \A p \in DOMAIN groups[k], q \in DOMAIN groups[l] :
            groups[k][p] = groups[l][q] => k = l /\ p = q
      BY <1>7, Zenon
    <3> QED BY <3>1, <3>2, Zenon
  <2>2. ASSUME new[k][i] = x PROVE k = g /\ i = Len(old) + 1
    BY <1>9, <1>11, <2>2
  <2>3. ASSUME new[l][j] = x PROVE l = g /\ j = Len(old) + 1
    BY <1>9, <1>11, <2>3
  <2> QED BY <1>11, <1>16, <2>1, <2>2, <2>3
<1>17. Filled(new, order, m + 1)
  <2> DEFINE dom == 1..n
             upto == 1..(m + 1)
  <2>1. \A k \in dom : \A i \in DOMAIN new[k] : \E a \in upto : new[k][i] = order[a]
    BY <1>14
  <2>2. \A a \in upto : \E k \in dom : \E i \in DOMAIN new[k] : new[k][i] = order[a]
    BY <1>15
  <2>3. \A k, l \in dom : \A i \in DOMAIN new[k], j \in DOMAIN new[l] :
          new[k][i] = new[l][j] => k = l /\ i = j
    BY <1>16
  <2>4. DOMAIN new = dom
    BY <1>5
  <2>5. /\ \A k \in DOMAIN new : \A i \in DOMAIN new[k] : \E a \in upto : new[k][i] = order[a]
        /\ \A a \in upto : \E k \in DOMAIN new : \E i \in DOMAIN new[k] : new[k][i] = order[a]
        /\ \A k, l \in DOMAIN new : \A i \in DOMAIN new[k], j \in DOMAIN new[l] :
             new[k][i] = new[l][j] => k = l /\ i = j
    <3> HIDE DEF dom, upto
    <3> QED BY <2>1, <2>2, <2>3, <2>4, Zenon
  <2> QED BY <2>5, Zenon DEF Filled
<1> QED BY <1>17 DEF new, more, old, x

\* A segment is added to the groups in the order.
LEMMA AddToGroupFills ==
  ASSUME segments \in Seq(Seq(Document)), NEW n \in Nat \ {0},
         NEW groups \in [1..n -> Group], NEW order \in Seq(DOMAIN segments),
         \A i, j \in 1..Len(order) : order[i] = order[j] => i = j,
         NEW m \in Nat, m + 1 <= Len(order),
         Filled(Ids(groups, n), order, m)
  PROVE  /\ AddToGroup(groups, order[m + 1]) \in [1..n -> Group]
         /\ Filled(Ids(AddToGroup(groups, order[m + 1]), n), order, m + 1)
<1> DEFINE D == DOMAIN segments
           x == order[m + 1]
           ids == Ids(groups, n)
           new == AddToGroup(groups, x)
<1>1. x \in D
  <2>1. m + 1 \in 1..Len(order)
    BY LenProperties
  <2> QED BY <2>1, ElementOfSeq
<1>2. NumDocs(x) \in Nat
  BY <1>1, NumDocsType
<1>3. PICK g \in 1..n : new = Placed(groups, g, x)
  BY SmallestGroup
<1> HIDE DEF new, x
<1>4. \A i \in 1..n : groups[i].docs \in Nat /\ groups[i].ids \in Seq(D)
  BY DEF Group
<1>5. Append(groups[g].ids, x) \in Seq(D)
  BY <1>1, <1>4, AppendProperties
<1>6. new \in [1..n -> Group]
  <2>1. [docs |-> groups[g].docs + NumDocs(x), ids |-> Append(groups[g].ids, x)] \in Group
    <3> DEFINE d == groups[g].docs + NumDocs(x)
               a == Append(groups[g].ids, x)
    <3>1. d \in Nat
      <4>1. groups[g].docs \in Nat
        BY <1>4
      <4> DEFINE u == groups[g].docs
                 v == NumDocs(x)
      <4>2. u \in Nat /\ v \in Nat
        BY <1>2, <4>1
      <4> HIDE DEF u, v
      <4>3. u + v \in Nat
        BY <4>2
      <4> QED BY <4>3 DEF u, v
    <3>2. a \in Seq(DOMAIN segments)
      BY <1>5
    <3> HIDE DEF d, a
    <3>3. [docs |-> d, ids |-> a] \in Group
      BY <3>1, <3>2 DEF Group
    <3> QED BY <3>3 DEF d, a
  <2> QED BY <1>3, <2>1 DEF Placed
<1>7. ids \in [1..n -> Seq(D)]
  BY <1>4 DEF Ids
<1>8. Ids(new, n) = [ids EXCEPT ![g] = Append(ids[g], x)]
  BY <1>3 DEF Placed, Ids
<1> HIDE DEF ids
<1>9. Filled([ids EXCEPT ![g] = Append(ids[g], x)], order, m + 1)
  <2>1. Filled(ids, order, m)
    BY DEF ids
  <2> QED BY <1>7, <2>1, AddFills DEF x
<1> QED BY <1>6, <1>8, <1>9 DEF new, x

\* balanced_merge_groups puts every segment into one group.
LEMMA GroupsFilled ==
  ASSUME segments \in Seq(Seq(Document)), NEW target \in Nat \ {0},
         NEW order \in Seq(DOMAIN segments),
         \A i, j \in 1..Len(order) : order[i] = order[j] => i = j
  PROVE  /\ BalancedMergeGroups(order, target) \in Seq(Seq(DOMAIN segments))
         /\ Len(BalancedMergeGroups(order, target)) <= target
         /\ Filled(BalancedMergeGroups(order, target), order, Len(order))
<1> DEFINE D == DOMAIN segments
           len == Len(order)
           none == [i \in 1..target |-> [docs |-> 0, ids |-> <<>>]]
           F(h, n) == IF n = 0 THEN none ELSE AddToGroup(h[n - 1], order[n])
           Solution(h, k) == h = [n \in 0..k |-> F(h, n)]
           K == {k \in Nat : \E h : Solution(h, k)}
           filled == CHOOSE h : Solution(h, len)
           groups == BalancedMergeGroups(order, target)
<1>1. len \in Nat /\ DOMAIN order = 1..len /\ \A i \in 1..len : order[i] \in D
  BY LenProperties, ElementOfSeq
<1>2. groups = IF len <= target THEN [i \in DOMAIN order |-> <<order[i]>>]
               ELSE [i \in 1..target |-> filled[len][i].ids]
  BY DEF BalancedMergeGroups
<1>3. CASE len <= target
  <2>1. groups = [i \in 1..len |-> <<order[i]>>]
    BY <1>1, <1>2, <1>3
  <2> HIDE DEF groups
  <2>2. groups \in [1..len -> Seq(D)]
    BY <1>1, <2>1
  <2>3. groups \in Seq(Seq(D)) /\ Len(groups) = len
    BY <1>1, <2>2, SeqOfFunction
  <2>4. DOMAIN groups = 1..len
    BY <2>1
  <2>5. ASSUME NEW k \in 1..len PROVE DOMAIN groups[k] = {1} /\ groups[k][1] = order[k]
    BY <2>1
  <2>6. Filled(groups, order, len)
    <3>1. \A k \in DOMAIN groups : \A i \in DOMAIN groups[k] :
            \E m \in 1..len : groups[k][i] = order[m]
      <4> SUFFICES ASSUME NEW k \in 1..len, NEW i \in DOMAIN groups[k]
                   PROVE  groups[k][i] = order[k]
        BY <2>4
      <4> QED BY <2>5
    <3>2. \A m \in 1..len : \E k \in DOMAIN groups : \E i \in DOMAIN groups[k] :
            groups[k][i] = order[m]
      BY <2>4, <2>5
    <3>3. \A k, l \in DOMAIN groups : \A i \in DOMAIN groups[k], j \in DOMAIN groups[l] :
            groups[k][i] = groups[l][j] => k = l /\ i = j
      <4> SUFFICES ASSUME NEW k \in 1..len, NEW l \in 1..len, NEW i \in DOMAIN groups[k],
                          NEW j \in DOMAIN groups[l], groups[k][i] = groups[l][j]
                   PROVE  k = l /\ i = j
        BY <2>4
      <4>1. i = 1 /\ j = 1 /\ order[k] = order[l]
        BY <2>5
      <4> QED BY <4>1
    <3> QED BY <3>1, <3>2, <3>3, Zenon DEF Filled
  <2> QED BY <1>1, <1>3, <2>3, <2>6 DEF groups
<1>4. CASE ~ (len <= target)
  <2>1. 0 \in K
    <3>1. Solution([n \in 0..0 |-> none], 0)
      OBVIOUS
    <3> QED BY <3>1
  <2>2. ASSUME NEW k \in Nat, k \in K PROVE k + 1 \in K
    <3> HIDE DEF none
    <3>1. PICK h : Solution(h, k)
      BY <2>2
    <3> DEFINE g == [n \in 0..(k + 1) |-> IF n <= k THEN h[n] ELSE AddToGroup(h[k], order[k + 1])]
    <3>2. ASSUME NEW n \in 0..(k + 1) PROVE g[n] = F(g, n)
      <4>1. CASE n = 0
        BY <3>1, <4>1
      <4>2. CASE n \in 1..k
        BY <3>1, <4>2
      <4>3. CASE n = k + 1
        BY <3>1, <4>3
      <4> QED BY <4>1, <4>2, <4>3
    <3>3. Solution(g, k + 1)
      BY <3>2
    <3> HIDE DEF g
    <3>4. \E e : Solution(e, k + 1)
      BY <3>3
    <3>5. k + 1 \in Nat
      OBVIOUS
    <3> QED BY <3>4, <3>5
  <2>3. Nat \subseteq K
    <3> HIDE DEF K
    <3> QED BY <2>1, <2>2, NatSet
  <2>4. Solution(filled, len)
    <3> HIDE DEF F
    <3> QED BY <1>1, <2>3
  <2> HIDE DEF filled
  <2> DEFINE ids(n) == Ids(filled[n], target)
             R == {n \in Nat : n <= len => /\ filled[n] \in [1..target -> Group]
                                           /\ Filled(ids(n), order, n)}
  <2>5. 0 \in R
    <3>1. filled[0] = none
      BY <1>1, <2>4
    <3>2. none \in [1..target -> Group]
      BY DEF Group
    <3>3. ids(0) = [i \in 1..target |-> <<>>]
      BY <3>1 DEF Ids
    <3>4. Filled(ids(0), order, 0)
      <4> DEFINE e == ids(0)
      <4>1. DOMAIN e = 1..target /\ \A i \in DOMAIN e : DOMAIN e[i] = {}
        BY <3>3
      <4>2. 1..0 = {}
        OBVIOUS
      <4> HIDE DEF e
      <4>3. Filled(e, order, 0)
        BY <4>1, <4>2 DEF Filled
      <4> QED BY <4>3 DEF e
    <3> HIDE DEF none, ids
    <3> QED BY <3>1, <3>2, <3>4
  <2>6. ASSUME NEW n \in Nat, n \in R PROVE n + 1 \in R
    <3> SUFFICES ASSUME n + 1 <= len
                 PROVE  filled[n + 1] \in [1..target -> Group] /\ Filled(ids(n + 1), order, n + 1)
      OBVIOUS
    <3>1. filled[n] \in [1..target -> Group] /\ Filled(ids(n), order, n)
      BY <1>1, <2>6
    <3>2. filled[n + 1] = AddToGroup(filled[n], order[n + 1])
      <4>1. n + 1 \in 0..len /\ n + 1 # 0 /\ (n + 1) - 1 = n
        BY <1>1
      <4>2. filled[n + 1] = F(filled, n + 1)
        <5> HIDE DEF F
        <5> QED BY <2>4, <4>1
      <4> QED BY <4>1, <4>2
    <3> DEFINE before == filled[n]
               after_ == filled[n + 1]
    <3>3. /\ before \in [1..target -> Group] /\ Filled(Ids(before, target), order, n)
          /\ after_ = AddToGroup(before, order[n + 1])
      BY <3>1, <3>2
    <3> HIDE DEF before, after_
    <3>4. after_ \in [1..target -> Group] /\ Filled(Ids(after_, target), order, n + 1)
      <4>1. n + 1 <= Len(order)
        OBVIOUS
      <4>2. /\ AddToGroup(before, order[n + 1]) \in [1..target -> Group]
            /\ Filled(Ids(AddToGroup(before, order[n + 1]), target), order, n + 1)
        BY <3>3, <4>1, AddToGroupFills
      <4> QED BY <3>3, <4>2, Zenon
    <3> QED BY <3>4 DEF after_
  <2>7. Nat \subseteq R
    <3> HIDE DEF R
    <3> QED BY <2>5, <2>6, NatSet
  <2>8. filled[len] \in [1..target -> Group] /\ Filled(ids(len), order, len)
    <3> HIDE DEF ids, len
    <3>1. len \in R
      BY <1>1, <2>7
    <3>2. len <= len
      BY <1>1
    <3> QED BY <3>1, <3>2
  <2>9. groups = ids(len)
    BY <1>2, <1>4 DEF Ids
  <2>10. ids(len) \in [1..target -> Seq(D)]
    BY <2>8 DEF Group, Ids
  <2> HIDE DEF groups, ids
  <2>11. groups \in Seq(Seq(D)) /\ Len(groups) = target
    BY <2>9, <2>10, SeqOfFunction
  <2> QED BY <2>8, <2>9, <2>11 DEF groups
<1> QED BY <1>3, <1>4

\* The groups of the optimizer hold every segment, each once.
LEMMA GroupsPartition ==
  ASSUME segments \in Seq(Seq(Document)), NEW target \in Nat \ {0}, NEW order \in MergeOrders,
         NEW groups, groups = BalancedMergeGroups(order, target)
  PROVE  /\ groups \in Seq(Seq(DOMAIN segments))
         /\ Len(groups) <= target
         /\ \A s \in DOMAIN segments : \E k \in DOMAIN groups : \E i \in DOMAIN groups[k] :
              groups[k][i] = s
         /\ \A k, l \in DOMAIN groups : \A i \in DOMAIN groups[k], j \in DOMAIN groups[l] :
              groups[k][i] = groups[l][j] => k = l /\ i = j
<1> DEFINE D == DOMAIN segments
           c == Cardinality(D)
<1>1. IsFiniteSet(D) /\ c \in Nat
  <2>1. Len(segments) \in Nat /\ D = 1..Len(segments)
    BY SegmentFacts
  <2>2. IsFiniteSet(D)
    BY <2>1, FS_Interval
  <2> QED BY <2>2, FS_CardinalityType
<1>2. order \in [1..c -> D] /\ \A i, j \in 1..c : order[i] = order[j] => i = j
  BY DEF MergeOrders, SetToSeqs
<1> HIDE DEF c
<1>3. order \in Seq(D) /\ Len(order) = c
  BY <1>1, <1>2, SeqOfFunction
<1>4. /\ groups \in Seq(Seq(D)) /\ Len(groups) <= target
      /\ Filled(groups, order, c)
  BY <1>2, <1>3, GroupsFilled
<1>5. \A s \in D : \E m \in 1..c : order[m] = s
  <2>1. order \in Injection(1..c, D)
    BY <1>2 DEF Injection, IsInjective
  <2>2. IsFiniteSet(1..c) /\ Cardinality(1..c) = c
    <3>1. 1 \in Int /\ c \in Int
      BY <1>1
    <3>2. IsFiniteSet(1..c) /\ Cardinality(1..c) = IF 1 > c THEN 0 ELSE c - 1 + 1
      BY <3>1, FS_Interval
    <3> QED BY <1>1, <3>2
  <2>3. order \in Surjection(1..c, D)
    <3>1. Cardinality(1..c) = Cardinality(D)
      BY <2>2 DEF c
    <3> QED BY <1>1, <2>1, <3>1, FS_Injection
  <2> QED BY <2>3 DEF Surjection
<1>6. ASSUME NEW s \in D
      PROVE  \E k \in DOMAIN groups : \E i \in DOMAIN groups[k] : groups[k][i] = s
  <2>1. PICK m \in 1..c : order[m] = s
    BY <1>5
  <2>2. \E k \in DOMAIN groups : \E i \in DOMAIN groups[k] : groups[k][i] = order[m]
    BY <1>4, Zenon DEF Filled
  <2> QED BY <2>1, <2>2
<1>7. \A k, l \in DOMAIN groups : \A i \in DOMAIN groups[k], j \in DOMAIN groups[l] :
        groups[k][i] = groups[l][j] => k = l /\ i = j
  BY <1>4, Zenon DEF Filled
<1> QED BY <1>4, <1>6, <1>7

-----------------------------------------------------------------------------
(* Merged segments.                                                        *)

LEMMA AddressesTotal ==
  ASSUME NEW S \in SUBSET (Nat \X Nat)
  PROVE  Total(S, {p \in S \X S : AddressBefore(p[1], p[2])})
<1> DEFINE R == {p \in S \X S : AddressBefore(p[1], p[2])}
<1>1. \A a, b \in S : <<a, b>> \in R <=> AddressBefore(a, b)
  OBVIOUS
<1>2. \A a \in S : a = <<a[1], a[2]>> /\ a[1] \in Nat /\ a[2] \in Nat
  OBVIOUS
<1>3. \A a \in S : ~AddressBefore(a, a)
  BY <1>2 DEF AddressBefore
<1>4. \A a, b \in S : a = b \/ AddressBefore(a, b) \/ AddressBefore(b, a)
  BY <1>2 DEF AddressBefore
<1>5. ASSUME NEW a \in S, NEW b \in S, NEW c \in S, AddressBefore(a, b), AddressBefore(b, c)
      PROVE  AddressBefore(a, c)
  BY <1>2, <1>5 DEF AddressBefore
<1> HIDE DEF R
<1> QED BY <1>1, <1>3, <1>4, <1>5 DEF Total

LEMMA NumbersTotal ==
  ASSUME NEW S \in SUBSET Nat
  PROVE  Total(S, {p \in S \X S : p[1] < p[2]})
<1> DEFINE R == {p \in S \X S : p[1] < p[2]}
<1>1. \A a, b \in S : <<a, b>> \in R <=> a < b
  OBVIOUS
<1> HIDE DEF R
<1> QED BY <1>1 DEF Total

\* The addresses of the live documents of a group: position in it, and in the segment.
Alive(ids) ==
  {a \in UNION {{n} \X DOMAIN segments[ids[n]] : n \in DOMAIN ids} :
     segments[ids[a[1]]][a[2]].live}

LEMMA AliveType ==
  ASSUME segments \in Seq(Seq(Document)), NEW ids \in Seq(DOMAIN segments)
  PROVE  /\ IsFiniteSet(Alive(ids))
         /\ Alive(ids) \in SUBSET (Nat \X Nat)
         /\ \A a \in Alive(ids) : /\ a = <<a[1], a[2]>>
                                  /\ a[1] \in DOMAIN ids
                                  /\ ids[a[1]] \in DOMAIN segments
                                  /\ a[2] \in DOMAIN segments[ids[a[1]]]
                                  /\ segments[ids[a[1]]][a[2]].live
         /\ \A n \in DOMAIN ids : \A j \in DOMAIN segments[ids[n]] :
              segments[ids[n]][j].live => <<n, j>> \in Alive(ids)
<1> DEFINE part(n) == {n} \X DOMAIN segments[ids[n]]
           parts == {part(n) : n \in DOMAIN ids}
           all == UNION parts
<1>1. /\ Len(ids) \in Nat /\ DOMAIN ids = 1..Len(ids)
      /\ \A n \in DOMAIN ids : ids[n] \in DOMAIN segments
  BY LenProperties, ElementOfSeq
<1>2. \A s \in DOMAIN segments : Len(segments[s]) \in Nat /\ DOMAIN segments[s] = 1..Len(segments[s])
  BY SegmentFacts
<1>3. IsFiniteSet(DOMAIN ids)
  BY <1>1, FS_Interval
<1>4. ASSUME NEW n \in DOMAIN ids PROVE IsFiniteSet(part(n))
  <2>1. IsFiniteSet(DOMAIN segments[ids[n]])
    BY <1>1, <1>2, FS_Interval
  <2> QED BY <2>1, FS_Singleton, FS_Product
<1>5. IsFiniteSet(parts)
  <2> DEFINE f == [n \in DOMAIN ids |-> part(n)]
             T == {part(n) : n \in DOMAIN ids}
  <2>1. f \in Surjection(DOMAIN ids, parts)
    <3>1. f \in [DOMAIN ids -> parts]
      OBVIOUS
    <3>2. \A t \in parts : \E n \in DOMAIN ids : f[n] = t
      OBVIOUS
    <3> QED BY <3>1, <3>2 DEF Surjection
  <2> QED BY <1>3, <2>1, FS_Surjection
<1>6. IsFiniteSet(all)
  <2>1. \A t \in parts : IsFiniteSet(t)
    BY <1>4
  <2> HIDE DEF parts
  <2> QED BY <1>5, <2>1, FS_UNION
<1>7. Alive(ids) \in SUBSET all
  BY DEF Alive
<1>8. IsFiniteSet(Alive(ids))
  BY <1>6, <1>7, FS_Subset
<1>9. ASSUME NEW a \in Alive(ids)
      PROVE  /\ a = <<a[1], a[2]>>
             /\ a[1] \in DOMAIN ids
             /\ ids[a[1]] \in DOMAIN segments
             /\ a[2] \in DOMAIN segments[ids[a[1]]]
             /\ segments[ids[a[1]]][a[2]].live
  <2>1. segments[ids[a[1]]][a[2]].live /\ \E n \in DOMAIN ids : a \in {n} \X DOMAIN segments[ids[n]]
    BY DEF Alive
  <2>2. PICK n \in DOMAIN ids : a \in {n} \X DOMAIN segments[ids[n]]
    BY <2>1
  <2>3. a = <<a[1], a[2]>> /\ a[1] = n /\ a[2] \in DOMAIN segments[ids[n]]
    BY <2>2
  <2> QED BY <1>1, <2>1, <2>3
<1>10. ASSUME NEW a \in Alive(ids) PROVE a \in Nat \X Nat
  <2>1. /\ a = <<a[1], a[2]>> /\ a[1] \in DOMAIN ids
        /\ ids[a[1]] \in DOMAIN segments /\ a[2] \in DOMAIN segments[ids[a[1]]]
    BY <1>9
  <2>2. a[1] \in Nat /\ a[2] \in Nat
    BY <1>1, <1>2, <2>1
  <2> QED BY <2>1, <2>2
<1>11. ASSUME NEW n \in DOMAIN ids, NEW j \in DOMAIN segments[ids[n]], segments[ids[n]][j].live
       PROVE  <<n, j>> \in Alive(ids)
  <2> DEFINE a == <<n, j>>
  <2>1. a[1] = n /\ a[2] = j /\ a \in {n} \X DOMAIN segments[ids[n]]
    OBVIOUS
  <2> HIDE DEF a
  <2>2. a \in UNION {{m} \X DOMAIN segments[ids[m]] : m \in DOMAIN ids}
    BY <2>1
  <2>3. a \in Alive(ids)
    BY <1>11, <2>1, <2>2 DEF Alive
  <2> QED BY <2>3 DEF a
<1> QED BY <1>8, <1>9, <1>10, <1>11

\* The documents of a merged segment come from the live ones of the group, each once.
Merges(from, ids, seg) ==
  /\ from \in [DOMAIN seg -> Alive(ids)]
  /\ \A i \in DOMAIN seg : seg[i] = segments[ids[from[i][1]]][from[i][2]]
  /\ \A i, j \in DOMAIN seg : from[i] = from[j] => i = j
  /\ \A a \in Alive(ids) : \E i \in DOMAIN seg : from[i] = a

\* A merge keeps each live document once.
LEMMA MergedDocuments ==
  ASSUME segments \in Seq(Seq(Document)), NEW ids \in Seq(DOMAIN segments),
         NEW seg, seg = MergedSegment(ids)
  PROVE  /\ seg \in Seq(Document)
         /\ \E from : Merges(from, ids, seg)
<1> DEFINE live == Alive(ids)
           R == {p \in live \X live : AddressBefore(p[1], p[2])}
           from == Sorted(live, R)
           c == Cardinality(live)
           doc(a) == segments[ids[a[1]]][a[2]]
<1>1. seg = [i \in DOMAIN from |-> doc(from[i])]
  BY DEF MergedSegment, Alive
<1>2. IsFiniteSet(live) /\ Total(live, R)
  BY AliveType, AddressesTotal
<1> HIDE DEF R
<1>3. /\ from \in Seq(live) /\ DOMAIN from = 1..c
      /\ \A k \in 1..c : from[k] \in live /\ Rank(live, R, from[k]) = k - 1
      /\ \A x \in live : Rank(live, R, x) + 1 \in 1..c /\ from[Rank(live, R, x) + 1] = x
  BY <1>2, SortedProperties
<1>4. c \in Nat
  BY <1>2, FS_CardinalityType
<1> HIDE DEF from, c, live
<1>5. DOMAIN seg = 1..c /\ \A i \in 1..c : seg[i] = doc(from[i])
  BY <1>1, <1>3
<1>6. \A i \in 1..c : seg[i] \in Document
  <2> SUFFICES ASSUME NEW i \in 1..c PROVE doc(from[i]) \in Document
    BY <1>5
  <2> DEFINE a == from[i]
  <2>1. a \in Alive(ids)
    BY <1>3 DEF live
  <2> HIDE DEF a
  <2>2. ids[a[1]] \in DOMAIN segments /\ a[2] \in DOMAIN segments[ids[a[1]]]
    BY <2>1, AliveType
  <2>3. doc(a) \in Document
    BY <2>2, SegmentFacts
  <2> QED BY <2>3 DEF a
<1>7. seg \in [1..c -> Document]
  <2>1. seg = [i \in 1..c |-> seg[i]]
    BY <1>1, <1>3
  <2> QED BY <1>6, <2>1
<1>8. seg \in Seq(Document)
  BY <1>4, <1>7, SeqOfFunction
<1>9. from \in [DOMAIN seg -> live]
  <2>1. from \in [1..c -> live]
    BY <1>3, LenProperties
  <2> QED BY <1>5, <2>1
<1>10. \A i, j \in DOMAIN seg : from[i] = from[j] => i = j
  <2> SUFFICES ASSUME NEW i \in 1..c, NEW j \in 1..c, from[i] = from[j] PROVE i = j
    BY <1>5
  <2>1. i - 1 = j - 1
    BY <1>3
  <2> QED BY <2>1
<1>11. \A a \in live : \E i \in DOMAIN seg : from[i] = a
  BY <1>3, <1>5
<1>12. Merges(from, ids, seg)
  <2>1. from \in [DOMAIN seg -> Alive(ids)] /\ \A a \in Alive(ids) : \E i \in DOMAIN seg : from[i] = a
    BY <1>9, <1>11 DEF live
  <2>2. \A i \in DOMAIN seg : seg[i] = doc(from[i])
    BY <1>5
  <2> QED BY <2>1, <2>2, <1>10 DEF Merges
<1> QED BY <1>8, <1>12, Zenon

LEMMA AscendingProperties ==
  ASSUME NEW S \in SUBSET Nat, IsFiniteSet(S), NEW q, q = Ascending(S)
  PROVE  /\ DOMAIN q = 1..Cardinality(S)
         /\ \A k \in DOMAIN q : q[k] \in S
         /\ \A k, l \in DOMAIN q : q[k] = q[l] => k = l
         /\ \A x \in S : \E k \in DOMAIN q : q[k] = x
<1> DEFINE R == {p \in S \X S : p[1] < p[2]}
<1>1. Total(S, R)
  BY NumbersTotal
<1>2. q = Sorted(S, R)
  BY DEF Ascending
<1> HIDE DEF R
<1>3. /\ DOMAIN q = 1..Cardinality(S)
      /\ \A k \in 1..Cardinality(S) : q[k] \in S /\ Rank(S, R, q[k]) = k - 1
      /\ \A x \in S : Rank(S, R, x) + 1 \in 1..Cardinality(S) /\ q[Rank(S, R, x) + 1] = x
  BY <1>1, <1>2, SortedProperties
<1>4. ASSUME NEW k \in DOMAIN q, NEW l \in DOMAIN q, q[k] = q[l] PROVE k = l
  <2>1. k - 1 = l - 1 /\ k \in Int /\ l \in Int
    BY <1>3, <1>4
  <2> QED BY <2>1
<1> QED BY <1>3, <1>4

\* What optimize leaves of typed segments: at most the target number, with every
\* live document once.
LEMMA OptimizedKeeps ==
  ASSUME segments \in Seq(Seq(Document)), NEW target \in Nat \ {0}, NEW order \in MergeOrders,
         NEW new, new = Optimized(BalancedMergeGroups(order, target))
  PROVE  /\ new \in Seq(Seq(Document))
         /\ Len(new) <= target
         /\ LiveRows(new) = LiveRows(segments)
         /\ OneLiveDocument(segments) => OneLiveDocument(new)
<1> DEFINE D == DOMAIN segments
           groups == BalancedMergeGroups(order, target)
           S == {s \in D : \E g \in DOMAIN groups : groups[g] = <<s>>}
           M == {g \in DOMAIN groups : Len(groups[g]) > 1 /\ MergedSegment(groups[g]) # <<>>}
           single == Ascending(S)
           merged == Ascending(M)
           kept == [i \in DOMAIN single |-> segments[single[i]]]
           made == [i \in DOMAIN merged |-> MergedSegment(groups[merged[i]])]
<1>1. new = kept \o made
  BY DEF Optimized
<1>2. /\ groups \in Seq(Seq(D)) /\ Len(groups) <= target
      /\ \A s \in D : \E k \in DOMAIN groups : \E i \in DOMAIN groups[k] : groups[k][i] = s
      /\ \A k, l \in DOMAIN groups : \A i \in DOMAIN groups[k], j \in DOMAIN groups[l] :
           groups[k][i] = groups[l][j] => k = l /\ i = j
  <2>1. groups = BalancedMergeGroups(order, target)
    OBVIOUS
  <2> HIDE DEF groups
  <2> QED BY <2>1, GroupsPartition
<1> HIDE DEF groups
<1>3. /\ Len(segments) \in Nat /\ D = 1..Len(segments)
      /\ \A s \in D : segments[s] \in Seq(Document)
  BY SegmentFacts
<1>4. /\ Len(groups) \in Nat /\ DOMAIN groups = 1..Len(groups)
      /\ \A g \in DOMAIN groups : /\ groups[g] \in Seq(D)
                                  /\ Len(groups[g]) \in Nat
                                  /\ DOMAIN groups[g] = 1..Len(groups[g])
                                  /\ \A i \in DOMAIN groups[g] : groups[g][i] \in D
  BY <1>2, SegmentFacts
<1>5. S \in SUBSET D /\ S \in SUBSET Nat /\ IsFiniteSet(S)
  <2>1. S \in SUBSET D /\ S \in SUBSET Nat
    BY <1>3
  <2>2. IsFiniteSet(D)
    BY <1>3, FS_Interval
  <2> QED BY <2>1, <2>2, FS_Subset
<1>6. M \in SUBSET DOMAIN groups /\ M \in SUBSET Nat /\ IsFiniteSet(M)
  <2>1. M \in SUBSET DOMAIN groups /\ M \in SUBSET Nat
    BY <1>4
  <2>2. IsFiniteSet(DOMAIN groups)
    BY <1>4, FS_Interval
  <2> QED BY <2>1, <2>2, FS_Subset
<1> DEFINE ones == {g \in DOMAIN groups : Len(groups[g]) = 1}
           a == Cardinality(S)
           b == Cardinality(M)
<1>7. a \in Nat /\ b \in Nat
  BY <1>5, <1>6, FS_CardinalityType
<1>8. a + b <= Len(groups)
  <2>1. ones \in SUBSET DOMAIN groups /\ ones \cap M = {}
    <3>1. ones \in SUBSET DOMAIN groups
      OBVIOUS
    <3>2. ASSUME NEW g \in ones, g \in M PROVE FALSE
      <4>1. Len(groups[g]) = 1 /\ Len(groups[g]) > 1
        BY <3>2
      <4> QED BY <4>1
    <3> QED BY <3>1, <3>2
  <2>2. IsFiniteSet(DOMAIN groups) /\ Cardinality(DOMAIN groups) = Len(groups)
    <3>1. 1 \in Int /\ Len(groups) \in Int
      BY <1>4
    <3>2. IsFiniteSet(1..Len(groups))
          /\ Cardinality(1..Len(groups)) = IF 1 > Len(groups) THEN 0 ELSE Len(groups) - 1 + 1
      BY <3>1, FS_Interval
    <3> QED BY <1>4, <3>2
  <2>3. IsFiniteSet(ones)
    BY <2>1, <2>2, FS_Subset
  <2> DEFINE f == [s \in S |-> CHOOSE g \in DOMAIN groups : groups[g] = <<s>>]
  <2>4. \A s \in S : f[s] \in DOMAIN groups /\ groups[f[s]] = <<s>>
    OBVIOUS
  <2>5. f \in Injection(S, ones)
    <3> HIDE DEF f
    <3>1. \A s \in S : f[s] \in ones
      <4> SUFFICES ASSUME NEW s \in S PROVE f[s] \in ones
        OBVIOUS
      <4>1. f[s] \in DOMAIN groups /\ groups[f[s]] = <<s>>
        BY <2>4
      <4>2. Len(<<s>>) = 1
        OBVIOUS
      <4> QED BY <4>1, <4>2
    <3>2. \A s, t \in S : f[s] = f[t] => s = t
      <4> SUFFICES ASSUME NEW s \in S, NEW t \in S, f[s] = f[t] PROVE s = t
        OBVIOUS
      <4>1. <<s>> = <<t>>
        BY <2>4
      <4> QED BY <4>1
    <3>3. f \in [S -> ones]
      BY <3>1 DEF f
    <3> QED BY <3>2, <3>3 DEF Injection, IsInjective
  <2>6. a <= Cardinality(ones)
    BY <2>3, <2>5, FS_Injection
  <2> HIDE DEF ones, M
  <2>7. Cardinality(ones \cup M) = Cardinality(ones) + b
    <3>1. Cardinality(ones \cup M) = Cardinality(ones) + b - Cardinality(ones \cap M)
      BY <1>6, <2>3, FS_Union
    <3>2. Cardinality(ones \cap M) = 0
      BY <2>1, FS_EmptySet
    <3>3. Cardinality(ones) \in Nat
      BY <2>3, FS_CardinalityType
    <3> QED BY <1>7, <3>1, <3>2, <3>3
  <2>8. ones \cup M \in SUBSET DOMAIN groups
    BY <1>6, <2>1
  <2>9. Cardinality(ones \cup M) <= Len(groups)
    BY <2>2, <2>8, FS_Subset
  <2>10. Cardinality(ones) \in Nat
    BY <2>3, FS_CardinalityType
  <2> HIDE DEF a, b
  <2> QED BY <1>4, <1>7, <2>6, <2>7, <2>9, <2>10
<1>9. /\ DOMAIN single = 1..a
      /\ \A k \in DOMAIN single : single[k] \in S
      /\ \A k, l \in DOMAIN single : single[k] = single[l] => k = l
      /\ \A x \in S : \E k \in DOMAIN single : single[k] = x
  <2> HIDE DEF S
  <2> QED BY <1>5, AscendingProperties
<1>10. /\ DOMAIN merged = 1..b
       /\ \A k \in DOMAIN merged : merged[k] \in M
       /\ \A k, l \in DOMAIN merged : merged[k] = merged[l] => k = l
       /\ \A x \in M : \E k \in DOMAIN merged : merged[k] = x
  <2> HIDE DEF M
  <2> QED BY <1>6, AscendingProperties
<1>11. ASSUME NEW g \in DOMAIN groups
       PROVE  /\ MergedSegment(groups[g]) \in Seq(Document)
              /\ \E from : Merges(from, groups[g], MergedSegment(groups[g]))
  BY <1>4, MergedDocuments
<1> HIDE DEF a, b, single, merged
<1>12. kept \in Seq(Seq(Document)) /\ Len(kept) = a
  <2>1. kept \in [1..a -> Seq(Document)]
    BY <1>3, <1>5, <1>9
  <2> QED BY <1>7, <2>1, SeqOfFunction
<1>13. made \in Seq(Seq(Document)) /\ Len(made) = b
  <2>1. \A k \in 1..b : MergedSegment(groups[merged[k]]) \in Seq(Document)
    BY <1>6, <1>10, <1>11
  <2>2. made = [k \in 1..b |-> MergedSegment(groups[merged[k]])]
    BY <1>10
  <2> HIDE DEF made
  <2>3. made \in [1..b -> Seq(Document)]
    BY <2>1, <2>2
  <2> QED BY <1>7, <2>3, SeqOfFunction
<1>14. /\ new \in Seq(Seq(Document)) /\ Len(new) = a + b
       /\ \A k \in 1..a : new[k] = segments[single[k]]
       /\ \A k \in 1..b : new[a + k] = MergedSegment(groups[merged[k]])
  <2>1. /\ new \in Seq(Seq(Document)) /\ Len(new) = Len(kept) + Len(made)
        /\ \A k \in 1..Len(kept) : new[k] = kept[k]
        /\ \A k \in 1..Len(made) : new[Len(kept) + k] = made[k]
    <3> HIDE DEF kept, made
    <3>1. \A k \in 1..(Len(kept) + Len(made)) :
            (kept \o made)[k] = IF k <= Len(kept) THEN kept[k] ELSE made[k - Len(kept)]
      BY <1>12, <1>13, ConcatProperties
    <3>2. kept \o made \in Seq(Seq(Document)) /\ Len(kept \o made) = Len(kept) + Len(made)
      BY <1>12, <1>13, ConcatProperties
    <3>3. \A k \in 1..a : k \in 1..(a + b) /\ k <= a
      BY <1>7
    <3>4. \A k \in 1..b : a + k \in 1..(a + b) /\ ~ (a + k <= a) /\ (a + k) - a = k
      BY <1>7
    <3>5. new = kept \o made
      BY <1>1
    <3> HIDE DEF a, b
    <3>6. \A k \in 1..a : new[k] = kept[k]
      BY <1>12, <1>13, <3>1, <3>3, <3>5
    <3>7. \A k \in 1..b : new[a + k] = made[k]
      BY <1>12, <1>13, <3>1, <3>4, <3>5
    <3> QED BY <1>12, <1>13, <3>2, <3>5, <3>6, <3>7
  <2>2. \A k \in 1..a : kept[k] = segments[single[k]]
    BY <1>9
  <2>3. \A k \in 1..b : made[k] = MergedSegment(groups[merged[k]])
    BY <1>10
  <2> HIDE DEF kept, made
  <2> QED BY <1>12, <1>13, <2>1, <2>2, <2>3
<1>15. Len(new) <= target
  BY <1>2, <1>4, <1>7, <1>8, <1>14
<1>16. DOMAIN new = 1..(a + b)
  BY <1>14, LenProperties
<1> DEFINE source(k) == CHOOSE f : Merges(f, groups[merged[k]], MergedSegment(groups[merged[k]]))
           old(s, i) == IF s <= a THEN <<single[s], i>>
                        ELSE <<groups[merged[s - a]][source(s - a)[i][1]], source(s - a)[i][2]>>
<1>17. ASSUME NEW k \in 1..b
       PROVE  /\ merged[k] \in DOMAIN groups /\ Len(groups[merged[k]]) > 1
              /\ Merges(source(k), groups[merged[k]], MergedSegment(groups[merged[k]]))
  <2>1. merged[k] \in DOMAIN groups /\ Len(groups[merged[k]]) > 1
    BY <1>10
  <2>2. \E f : Merges(f, groups[merged[k]], MergedSegment(groups[merged[k]]))
    BY <1>11, <2>1
  <2> QED BY <2>1, <2>2
<1> HIDE DEF source
\* Every document comes from one of the old ones.
<1>18. ASSUME NEW s \in 1..a, NEW i \in DOMAIN new[s]
       PROVE  /\ old(s, i) = <<single[s], i>>
              /\ single[s] \in D /\ i \in DOMAIN segments[single[s]]
              /\ new[s][i] = segments[single[s]][i]
              /\ \E g \in DOMAIN groups : groups[g] = <<single[s]>>
  <2>1. s <= a
    BY <1>7
  <2>2. old(s, i) = <<single[s], i>>
    BY <2>1
  <2>3. single[s] \in S
    BY <1>9
  <2>4. new[s] = segments[single[s]]
    BY <1>14
  <2> HIDE DEF old
  <2> QED BY <2>2, <2>3, <2>4
<1>19. ASSUME NEW k \in 1..b, NEW i \in DOMAIN new[a + k]
       PROVE  /\ source(k)[i] \in Alive(groups[merged[k]])
              /\ source(k)[i][1] \in DOMAIN groups[merged[k]]
              /\ source(k)[i] = <<source(k)[i][1], source(k)[i][2]>>
              /\ old(a + k, i) = <<groups[merged[k]][source(k)[i][1]], source(k)[i][2]>>
              /\ groups[merged[k]][source(k)[i][1]] \in D
              /\ source(k)[i][2] \in DOMAIN segments[groups[merged[k]][source(k)[i][1]]]
              /\ new[a + k][i] = segments[groups[merged[k]][source(k)[i][1]]][source(k)[i][2]]
  <2> DEFINE ids == groups[merged[k]]
             seg == MergedSegment(ids)
             x == source(k)[i]
  <2>1. ids \in Seq(D) /\ Merges(source(k), ids, seg)
    BY <1>4, <1>17
  <2>2. new[a + k] = seg
    BY <1>14
  <2> HIDE DEF ids, seg
  <2>3. x \in Alive(ids) /\ seg[i] = segments[ids[x[1]]][x[2]]
    BY <2>1, <2>2 DEF Merges
  <2>4. (a + k) - a = k /\ ~ (a + k <= a)
    BY <1>7
  <2>5. old(a + k, i) = <<ids[x[1]], x[2]>>
    BY <2>4 DEF ids
  <2> HIDE DEF x
  <2>6. x = <<x[1], x[2]>> /\ x[1] \in DOMAIN ids /\ ids[x[1]] \in D /\ x[2] \in DOMAIN segments[ids[x[1]]]
    BY <2>1, <2>3, AliveType
  <2> QED BY <2>2, <2>3, <2>5, <2>6 DEF x, ids
<1>20. \A s \in 1..(a + b) : s \in 1..a \/ \E k \in 1..b : s = a + k
  <2> SUFFICES ASSUME NEW s \in 1..(a + b), s \notin 1..a PROVE s - a \in 1..b /\ s = a + (s - a)
    OBVIOUS
  <2> QED BY <1>7
<1> HIDE DEF old
<1>21. ASSUME NEW s \in DOMAIN new, NEW i \in DOMAIN new[s]
       PROVE  /\ old(s, i)[1] \in D /\ old(s, i)[2] \in DOMAIN segments[old(s, i)[1]]
              /\ new[s][i] = segments[old(s, i)[1]][old(s, i)[2]]
  <2>1. CASE s \in 1..a
    BY <1>18, <2>1
  <2>2. ASSUME NEW k \in 1..b, s = a + k
        PROVE  /\ old(s, i)[1] \in D /\ old(s, i)[2] \in DOMAIN segments[old(s, i)[1]]
               /\ new[s][i] = segments[old(s, i)[1]][old(s, i)[2]]
    BY <1>19, <2>2
  <2> QED BY <1>16, <1>20, <2>1, <2>2
\* Two documents do not come from the same one.
<1>22. ASSUME NEW s \in 1..a, NEW i \in DOMAIN new[s], NEW k \in 1..b, NEW j \in DOMAIN new[a + k],
              old(s, i) = old(a + k, j)
       PROVE  FALSE
  <2>1. PICK g \in DOMAIN groups : groups[g] = <<single[s]>>
    BY <1>18
  <2>2. Len(groups[g]) = 1 /\ 1 \in DOMAIN groups[g] /\ groups[g][1] = single[s]
    BY <2>1
  <2>3. single[s] = groups[merged[k]][source(k)[j][1]]
    BY <1>18, <1>19, <1>22
  <2>4. source(k)[j][1] \in DOMAIN groups[merged[k]] /\ merged[k] \in DOMAIN groups
    BY <1>17, <1>19
  <2>5. g = merged[k]
    <3> DEFINE h == merged[k]
               n == source(k)[j][1]
    <3> HIDE DEF h, n
    <3>1. h \in DOMAIN groups /\ n \in DOMAIN groups[h] /\ groups[g][1] = groups[h][n]
      BY <2>2, <2>3, <2>4 DEF h, n
    <3>2. \A i1 \in DOMAIN groups[g], j1 \in DOMAIN groups[h] :
            groups[g][i1] = groups[h][j1] => g = h /\ i1 = j1
      BY <1>2, <3>1, Zenon
    <3>3. g = h
      BY <2>2, <3>1, <3>2, Zenon
    <3> QED BY <3>3 DEF h
  <2>6. Len(groups[g]) > 1
    BY <1>17, <2>5
  <2> QED BY <2>2, <2>6
<1>23. ASSUME NEW s \in 1..a, NEW i \in DOMAIN new[s], NEW t \in 1..a, NEW j \in DOMAIN new[t],
              old(s, i) = old(t, j)
       PROVE  s = t /\ i = j
  <2>1. <<single[s], i>> = <<single[t], j>>
    BY <1>18, <1>23
  <2> QED BY <1>9, <2>1
<1>24. ASSUME NEW k \in 1..b, NEW i \in DOMAIN new[a + k], NEW l \in 1..b, NEW j \in DOMAIN new[a + l],
              old(a + k, i) = old(a + l, j)
       PROVE  k = l /\ i = j
  <2> DEFINE x == source(k)[i]
             y == source(l)[j]
             g == merged[k]
             h == merged[l]
  <2>1. /\ g \in DOMAIN groups /\ h \in DOMAIN groups
        /\ x[1] \in DOMAIN groups[g] /\ y[1] \in DOMAIN groups[h]
        /\ groups[g][x[1]] = groups[h][y[1]] /\ x[2] = y[2]
        /\ x = <<x[1], x[2]>> /\ y = <<y[1], y[2]>>
    BY <1>17, <1>19, <1>24
  <2> HIDE DEF x, y, g, h
  <2>2. g = h /\ x[1] = y[1]
    <3>1. \A i1 \in DOMAIN groups[g], j1 \in DOMAIN groups[h] :
            groups[g][i1] = groups[h][j1] => g = h /\ i1 = j1
      BY <1>2, <2>1, Zenon
    <3> QED BY <2>1, <3>1, Zenon
  <2>3. k = l
    BY <1>10, <2>2 DEF g, h
  <2>4. x = y
    BY <2>1, <2>2
  <2>5. Merges(source(k), groups[g], MergedSegment(groups[g])) /\ new[a + k] = MergedSegment(groups[g])
    BY <1>14, <1>17 DEF g
  <2>6. i = j
    BY <2>3, <2>4, <2>5 DEF Merges, x, y
  <2> QED BY <2>3, <2>6
<1>25. ASSUME NEW s \in DOMAIN new, NEW i \in DOMAIN new[s], NEW t \in DOMAIN new, NEW j \in DOMAIN new[t],
              old(s, i) = old(t, j)
       PROVE  s = t /\ i = j
  <2>1. s \in 1..(a + b) /\ t \in 1..(a + b)
    BY <1>16
  <2>2. CASE s \in 1..a /\ t \in 1..a
    BY <1>23, <1>25, <2>2
  <2>3. CASE s \in 1..a /\ t \notin 1..a
    <3>1. PICK k \in 1..b : t = a + k
      BY <1>20, <2>1, <2>3
    <3> QED BY <1>22, <1>25, <2>3, <3>1
  <2>4. CASE s \notin 1..a /\ t \in 1..a
    <3>1. PICK k \in 1..b : s = a + k
      BY <1>20, <2>1, <2>4
    <3> QED BY <1>22, <1>25, <2>4, <3>1
  <2>5. CASE s \notin 1..a /\ t \notin 1..a
    <3>1. PICK k \in 1..b : s = a + k
      BY <1>20, <2>1, <2>5
    <3>2. PICK l \in 1..b : t = a + l
      BY <1>20, <2>1, <2>5
    <3> QED BY <1>24, <1>25, <3>1, <3>2
  <2> QED BY <2>2, <2>3, <2>4, <2>5
\* Every live document is kept.
<1>26. ASSUME NEW u \in D, NEW j \in DOMAIN segments[u], segments[u][j].live
       PROVE  \E s \in DOMAIN new : \E i \in DOMAIN new[s] : new[s][i] = segments[u][j]
  <2>1. PICK g \in DOMAIN groups : \E n \in DOMAIN groups[g] : groups[g][n] = u
    BY <1>2
  <2>2. PICK n \in DOMAIN groups[g] : groups[g][n] = u
    BY <2>1
  <2>3. groups[g] \in Seq(D) /\ Len(groups[g]) \in Nat /\ n \in 1..Len(groups[g])
    BY <1>4
  <2>4. CASE Len(groups[g]) = 1
    <3>1. n = 1 /\ groups[g] = <<u>>
      BY <2>2, <2>3, <2>4
    <3>2. u \in S
      BY <3>1
    <3>3. PICK k \in 1..a : single[k] = u
      BY <1>9, <3>2
    <3>4. k \in DOMAIN new /\ new[k] = segments[u]
      BY <1>7, <1>14, <1>16, <3>3
    <3> QED BY <3>4
  <2>5. CASE Len(groups[g]) > 1
    <3> DEFINE ids == groups[g]
               seg == MergedSegment(ids)
    <3> HIDE DEF ids, seg
    <3>1. ids \in Seq(D) /\ n \in DOMAIN ids /\ ids[n] = u
      BY <2>2, <2>3 DEF ids
    <3>2. <<n, j>> \in Alive(ids)
      BY <1>26, <3>1, AliveType
    <3>3. PICK f : Merges(f, ids, seg)
      BY <1>11 DEF ids, seg
    <3>4. PICK i \in DOMAIN seg : f[i] = <<n, j>>
      BY <3>2, <3>3 DEF Merges
    <3>5. seg[i] = segments[u][j]
      <4>1. seg[i] = segments[ids[f[i][1]]][f[i][2]]
        BY <3>3 DEF Merges
      <4> QED BY <3>1, <3>4, <4>1
    <3>6. seg # <<>>
      BY <3>4
    <3>7. g \in M
      BY <2>5, <3>6 DEF seg, ids
    <3>8. PICK k \in 1..b : merged[k] = g
      BY <1>10, <3>7
    <3>9. a + k \in DOMAIN new /\ new[a + k] = seg
      <4>1. a + k \in 1..(a + b)
        BY <1>7
      <4> QED BY <1>14, <1>16, <3>8, <4>1 DEF seg, ids
    <3> QED BY <3>4, <3>5, <3>9
  <2>6. Len(groups[g]) = 1 \/ Len(groups[g]) > 1
    <3> DEFINE size == Len(groups[g])
    <3>1. size \in Nat /\ n \in 1..size
      BY <2>3
    <3> HIDE DEF size
    <3>2. size = 1 \/ size > 1
      BY <3>1
    <3> QED BY <3>2 DEF size
  <2> QED BY <2>4, <2>5, <2>6
<1> HIDE DEF S, M, kept, made
<1>27. LiveRows(new) = LiveRows(segments)
  <2>1. ASSUME NEW d \in LiveRows(new) PROVE d \in LiveRows(segments)
    <3>1. PICK s \in DOMAIN new : d \in Range(new[s]) /\ d.live
      BY DEF LiveRows
    <3>2. PICK i \in DOMAIN new[s] : d = new[s][i]
      BY <3>1 DEF Range
    <3>3. PICK u \in D : \E j \in DOMAIN segments[u] : d = segments[u][j]
      BY <1>21, <3>2, ZenonT(60)
    <3>4. d \in Range(segments[u])
      BY <3>3 DEF Range
    <3> QED BY <3>1, <3>4 DEF LiveRows
  <2>2. ASSUME NEW d \in LiveRows(segments) PROVE d \in LiveRows(new)
    <3>1. PICK u \in D : d \in Range(segments[u]) /\ d.live
      BY DEF LiveRows
    <3>2. PICK j \in DOMAIN segments[u] : d = segments[u][j]
      BY <3>1 DEF Range
    <3>3. PICK s \in DOMAIN new : \E i \in DOMAIN new[s] : new[s][i] = d
      BY <1>26, <3>1, <3>2
    <3>4. d \in Range(new[s])
      BY <3>3 DEF Range
    <3> QED BY <3>1, <3>4 DEF LiveRows
  <2> QED BY <2>1, <2>2
<1>28. ASSUME OneLiveDocument(segments) PROVE OneLiveDocument(new)
  <2> SUFFICES ASSUME NEW s \in DOMAIN new, NEW t \in DOMAIN new,
                      NEW i \in DOMAIN new[s], NEW j \in DOMAIN new[t],
                      new[s][i].live, new[t][j].live, new[s][i].pk = new[t][j].pk
               PROVE  s = t /\ i = j
    BY DEF OneLiveDocument
  <2> DEFINE x == old(s, i)
             y == old(t, j)
  <2>1. /\ x[1] \in D /\ x[2] \in DOMAIN segments[x[1]] /\ new[s][i] = segments[x[1]][x[2]]
        /\ y[1] \in D /\ y[2] \in DOMAIN segments[y[1]] /\ new[t][j] = segments[y[1]][y[2]]
    BY <1>21
  <2>2. x = <<x[1], x[2]>> /\ y = <<y[1], y[2]>>
    BY DEF old
  <2> HIDE DEF x, y
  <2>3. x[1] = y[1] /\ x[2] = y[2]
    BY <1>28, <2>1 DEF OneLiveDocument
  <2>4. old(s, i) = old(t, j)
    BY <2>2, <2>3 DEF x, y
  <2> QED BY <1>25, <2>4
<1> QED BY <1>14, <1>15, <1>27, <1>28

-----------------------------------------------------------------------------
(* A key has at most one live document.                                    *)

LEMMA InitialOneLive ==
  ASSUME PlanOK, NEW segs \in Layouts
  PROVE  OneLiveDocument(segs)
<1> DEFINE n == Cardinality(Keys)
           docs(r) == [i \in 1..n |-> Doc(i, r[i])]
           cut(r, m) == IF m = n THEN <<docs(r)>>
                        ELSE <<SubSeq(docs(r), 1, m), SubSeq(docs(r), m + 1, n)>>
<1>1. n \in Nat \ {0} /\ Keys = 1..n
  BY ListingAssumption, FS_CardinalityType, FS_EmptySet
<1>2. PICK r \in [Keys -> Cell], m \in {n - 1, n} : segs = cut(r, m)
  BY DEF Layouts, Cell
<1>3. docs(r) \in [1..n -> Document]
  BY <1>1, <1>2, DocumentType
<1> DEFINE d == docs(r)
<1>4. d \in Seq(Document) /\ Len(d) = n /\ DOMAIN d = 1..n
  BY <1>1, <1>3, SeqOfFunction
<1>5. segs = IF m = n THEN <<d>> ELSE <<SubSeq(d, 1, m), SubSeq(d, m + 1, n)>>
  BY <1>2
<1>6. \A i \in 1..n : d[i].pk = i
  BY DEF Doc
<1> HIDE DEF d
<1>7. CASE m = n
  <2>1. DOMAIN segs = {1} /\ segs[1] = d
    BY <1>5, <1>7
  <2> QED BY <1>4, <1>6, <2>1 DEF OneLiveDocument
<1>8. CASE m = n - 1
  <2>1. m \in Nat /\ n = m + 1
    BY <1>1, <1>8
  <2> DEFINE e == SubSeq(d, 1, m)
             f == SubSeq(d, m + 1, n)
  <2>2. DOMAIN segs = {1, 2} /\ segs[1] = e /\ segs[2] = f
    BY <1>5, <2>1
  <2>3. DOMAIN e = 1..m /\ \A i \in 1..m : e[i] = d[i]
    <3>1. m \in Int /\ 1 \in Int /\ \A i \in 1..m : d[i] \in Document
      BY <1>3, <2>1 DEF d
    <3>2. e = [i \in 1..((m - 1) + 1) |-> d[1 + i - 1]]
      BY <2>1, <3>1, SubSeqProperties
    <3>3. (m - 1) + 1 = m /\ \A i \in 1..m : 1 + i - 1 = i
      BY <2>1
    <3> HIDE DEF e
    <3> QED BY <3>2, <3>3
  <2>4. DOMAIN f = {1} /\ f[1] = d[n]
    <3>1. m + 1 \in Int /\ n \in Int /\ \A i \in (m + 1)..n : d[i] \in Document
      BY <1>3, <2>1 DEF d
    <3>2. f = [i \in 1..((n - (m + 1)) + 1) |-> d[(m + 1) + i - 1]]
      BY <2>1, <3>1, SubSeqProperties
    <3>3. (n - (m + 1)) + 1 = 1 /\ (m + 1) + 1 - 1 = n
      BY <2>1
    <3> HIDE DEF f
    <3> QED BY <3>2, <3>3
  <2> HIDE DEF e, f
  <2>5. \A i \in 1..m : e[i].pk = i /\ i # n
    BY <1>6, <2>1, <2>3
  <2>6. f[1].pk = n
    BY <1>1, <1>6, <2>4
  <2>7. ASSUME NEW s \in DOMAIN segs, NEW t \in DOMAIN segs,
               NEW i \in DOMAIN segs[s], NEW j \in DOMAIN segs[t],
               segs[s][i].pk = segs[t][j].pk
        PROVE  s = t /\ i = j
    <3>1. CASE s = 1 /\ t = 1
      BY <2>2, <2>3, <2>5, <2>7, <3>1
    <3>2. CASE s = 1 /\ t = 2
      BY <2>2, <2>3, <2>4, <2>5, <2>6, <2>7, <3>2
    <3>3. CASE s = 2 /\ t = 1
      BY <2>2, <2>3, <2>4, <2>5, <2>6, <2>7, <3>3
    <3>4. CASE s = 2 /\ t = 2
      BY <2>2, <2>4, <2>7, <3>4
    <3> QED BY <2>2, <3>1, <3>2, <3>3, <3>4
  <2> QED BY <2>7 DEF OneLiveDocument
<1> QED BY <1>2, <1>7, <1>8

LEMMA KillLive ==
  ASSUME NEW k, segments \in Seq(Seq(Document)),
         NEW s \in DOMAIN segments, NEW i \in DOMAIN segments[s]
  PROVE  /\ Kill(k)[s][i].pk = segments[s][i].pk
         /\ Kill(k)[s][i].live <=> segments[s][i].live /\ segments[s][i].pk # k
<1> DEFINE d == segments[s][i]
<1>1. d \in Document
  BY SegmentFacts
<1>2. Kill(k)[s][i] = IF d.pk = k THEN [d EXCEPT !.live = FALSE] ELSE d
  BY DEF Kill
<1> HIDE DEF d
<1>3. d.live \in BOOLEAN /\ [d EXCEPT !.live = FALSE].live = FALSE /\ [d EXCEPT !.live = FALSE].pk = d.pk
  BY <1>1 DEF Document
<1> QED BY <1>2, <1>3 DEF d

LEMMA KillOneLive ==
  ASSUME NEW k, segments \in Seq(Seq(Document)), OneLiveDocument(segments)
  PROVE  OneLiveDocument(Kill(k))
<1> DEFINE segs == Kill(k)
<1>1. DOMAIN segs = DOMAIN segments /\ \A s \in DOMAIN segments : DOMAIN segs[s] = DOMAIN segments[s]
  BY KillType
<1>2. \A s \in DOMAIN segments : \A i \in DOMAIN segments[s] :
        segs[s][i].pk = segments[s][i].pk /\ (segs[s][i].live => segments[s][i].live)
  BY KillLive
<1> HIDE DEF segs
<1>3. ASSUME NEW s \in DOMAIN segs, NEW t \in DOMAIN segs,
             NEW i \in DOMAIN segs[s], NEW j \in DOMAIN segs[t],
             segs[s][i].live, segs[t][j].live, segs[s][i].pk = segs[t][j].pk
      PROVE  s = t /\ i = j
  <2>1. /\ s \in DOMAIN segments /\ t \in DOMAIN segments
        /\ i \in DOMAIN segments[s] /\ j \in DOMAIN segments[t]
    BY <1>1
  <2>2. segments[s][i].live /\ segments[t][j].live /\ segments[s][i].pk = segments[t][j].pk
    BY <1>2, <1>3, <2>1
  <2> QED BY <2>1, <2>2 DEF OneLiveDocument
<1> QED BY <1>3 DEF OneLiveDocument, segs

LEMMA UpsertType ==
  ASSUME NEW k \in Keys, NEW v \in Cell, segments \in Seq(Seq(Document)),
         OneLiveDocument(segments), NEW new, new = Append(Kill(k), <<Doc(k, v)>>)
  PROVE  new \in Seq(Seq(Document)) /\ OneLiveDocument(new)
<1> DEFINE segs == Kill(k)
           d == Doc(k, v)
           n == Len(segments)
<1>1. /\ segs \in Seq(Seq(Document)) /\ DOMAIN segs = DOMAIN segments
      /\ \A s \in DOMAIN segments : DOMAIN segs[s] = DOMAIN segments[s]
  BY KillType
<1>2. n \in Nat /\ DOMAIN segments = 1..n /\ Len(segs) = n
  BY <1>1, LenProperties
<1>3. OneLiveDocument(segs)
  BY KillOneLive
<1>4. d \in Document /\ d.pk = k
  BY DocumentType DEF Doc
<1>5. \A s \in DOMAIN segs : \A i \in DOMAIN segs[s] : ~ (segs[s][i].live /\ segs[s][i].pk = k)
  <2> SUFFICES ASSUME NEW s \in DOMAIN segments, NEW i \in DOMAIN segments[s]
               PROVE  ~ (segs[s][i].live /\ segs[s][i].pk = k)
    BY <1>1
  <2>1. segs[s][i].live <=> segments[s][i].live /\ segments[s][i].pk # k
    BY KillLive
  <2>2. segs[s][i].pk = segments[s][i].pk
    BY KillLive
  <2> HIDE DEF segs
  <2> QED BY <2>1, <2>2
<1> HIDE DEF segs, d, n
<1>6. <<d>> \in Seq(Document)
  BY <1>4
<1>7. new = Append(segs, <<d>>)
  BY DEF segs, d
<1>8. /\ new \in Seq(Seq(Document)) /\ Len(new) = n + 1
      /\ \A s \in 1..n : new[s] = segs[s]
      /\ new[n + 1] = <<d>>
  <2> DEFINE x == <<d>>
  <2>1. x \in Seq(Document) /\ new = Append(segs, x)
    BY <1>6, <1>7
  <2> HIDE DEF x
  <2>2. /\ new \in Seq(Seq(Document)) /\ Len(new) = n + 1
        /\ \A s \in 1..n : new[s] = segs[s]
        /\ new[n + 1] = x
    <3> DEFINE T == Seq(Document)
    <3>1. segs \in Seq(T) /\ x \in T
      BY <1>1, <2>1
    <3> HIDE DEF T
    <3>2. /\ Append(segs, x) \in Seq(T) /\ Len(Append(segs, x)) = Len(segs) + 1
          /\ \A s \in 1..Len(segs) : Append(segs, x)[s] = segs[s]
          /\ Append(segs, x)[Len(segs) + 1] = x
      BY <3>1, AppendProperties
    <3> QED BY <1>2, <2>1, <3>2 DEF T
  <2> QED BY <2>2 DEF x
<1>9. DOMAIN new = 1..(n + 1) /\ \A s \in 1..(n + 1) : s \in 1..n \/ s = n + 1
  BY <1>2, <1>8, LenProperties
<1>10. DOMAIN new[n + 1] = {1} /\ new[n + 1][1] = d
  BY <1>8
<1>11. ASSUME NEW s \in DOMAIN new, NEW t \in DOMAIN new,
              NEW i \in DOMAIN new[s], NEW j \in DOMAIN new[t],
              new[s][i].live, new[t][j].live, new[s][i].pk = new[t][j].pk
       PROVE  s = t /\ i = j
  <2>1. CASE s \in 1..n /\ t \in 1..n
    <3>1. new[s] = segs[s] /\ new[t] = segs[t] /\ s \in DOMAIN segs /\ t \in DOMAIN segs
      BY <1>1, <1>2, <1>8, <2>1
    <3>2. /\ i \in DOMAIN segs[s] /\ j \in DOMAIN segs[t]
          /\ segs[s][i].live /\ segs[t][j].live /\ segs[s][i].pk = segs[t][j].pk
      BY <1>11, <3>1
    <3> QED BY <1>3, <3>1, <3>2 DEF OneLiveDocument
  <2>2. CASE s \in 1..n /\ t = n + 1
    <3>1. new[s] = segs[s] /\ s \in DOMAIN segs /\ new[t][j].pk = k
      BY <1>1, <1>2, <1>4, <1>8, <1>10, <2>2
    <3>2. i \in DOMAIN segs[s] /\ segs[s][i].live /\ segs[s][i].pk = k
      BY <1>11, <3>1
    <3> QED BY <1>5, <3>1, <3>2
  <2>3. CASE s = n + 1 /\ t \in 1..n
    <3>1. new[t] = segs[t] /\ t \in DOMAIN segs /\ new[s][i].pk = k
      BY <1>1, <1>2, <1>4, <1>8, <1>10, <2>3
    <3>2. j \in DOMAIN segs[t] /\ segs[t][j].live /\ segs[t][j].pk = k
      BY <1>11, <3>1
    <3> QED BY <1>5, <3>1, <3>2
  <2>4. CASE s = n + 1 /\ t = n + 1
    BY <1>10, <2>4
  <2> QED BY <1>9, <2>1, <2>2, <2>3, <2>4
<1> QED BY <1>8, <1>11, SMTT(30) DEF OneLiveDocument

-----------------------------------------------------------------------------
(* The layout of segments and tasks is an invariant.                       *)

LEMMA InitialLayout == Init => Layout /\ OneLiveDocument(segments)
<1> SUFFICES ASSUME Init PROVE Layout /\ OneLiveDocument(segments)
  OBVIOUS
<1>1. PlanOK
  BY PlanType DEF Init
<1>2. segments \in Layouts /\ phase = "idle" /\ searcher = <<>>
  BY DEF Init
<1>3. segments \in Seq(Seq(Document)) /\ OneLiveDocument(segments)
  BY <1>1, <1>2, LayoutsType, InitialOneLive
<1>4. searcher \in Seq(Seq(Document))
  BY <1>2, EmptySeq
<1> QED BY <1>1, <1>2, <1>3, <1>4 DEF Layout

LEMMA PlanStays == [Next]_vars => plan' = plan
BY DEF Next, vars, Start, Collect, Finish, Again, Upsert, Delete, Written, Optimize

LEMMA LayoutStep == Layout /\ OneLiveDocument(segments) /\ [Next]_vars
                      => Layout' /\ OneLiveDocument(segments')
<1> SUFFICES ASSUME Layout, OneLiveDocument(segments), [Next]_vars
             PROVE  Layout' /\ OneLiveDocument(segments')
  OBVIOUS
<1>1. plan' = plan
  BY PlanStays
<1>2. PlanOK'
  BY <1>1 DEF Layout, PlanOK
<1>3. Document' = Document
  BY <1>1 DEF Document, Cell
<1>4. PlanOK /\ segments \in Seq(Seq(Document)) /\ searcher \in Seq(Seq(Document))
  BY DEF Layout
<1>5. CASE UNCHANGED <<segments, phase, searcher, tasks>>
  <2>1. /\ phase' \in {"idle", "collecting", "done"}
        /\ segments' \in Seq(Seq(Document)) /\ searcher' \in Seq(Seq(Document))
        /\ (phase' = "collecting" => Planned(searcher', tasks'))
    BY <1>5 DEF Layout
  <2>2. Layout'
    BY <1>2, <1>3, <2>1 DEF Layout
  <2> QED BY <1>5, <2>2
<1>6. CASE Start
  <2>1. /\ phase' = "collecting" /\ searcher' = segments /\ segments' = segments
        /\ tasks' = PlannedTasks(segments)
    BY <1>6 DEF Start
  <2>2. Planned(segments, PlannedTasks(segments))
    BY <1>4, PlannedTasksPartition
  <2>3. Planned(searcher', tasks')
    BY <2>1, <2>2
  <2>4. Layout'
    BY <1>2, <1>3, <1>4, <2>1, <2>3 DEF Layout
  <2> QED BY <2>1, <2>4
<1>7. ASSUME NEW t \in tasks, Collect(t) PROVE UNCHANGED <<segments, phase, searcher, tasks>>
  BY <1>7 DEF Collect
<1>8. CASE Finish
  <2>1. segments' = segments /\ searcher' = searcher /\ phase' \in {"idle", "done"}
    BY <1>8 DEF Finish
  <2>2. Layout'
    BY <1>2, <1>3, <1>4, <2>1 DEF Layout
  <2> QED BY <2>1, <2>2
<1>9. CASE Again
  <2>1. segments' = segments /\ searcher' = <<>> /\ phase' = "idle"
    BY <1>9 DEF Again
  <2>2. searcher' \in Seq(Seq(Document))
    BY <2>1, EmptySeq
  <2>3. Layout'
    BY <1>2, <1>3, <1>4, <2>1, <2>2 DEF Layout
  <2> QED BY <2>1, <2>3
<1>10. ASSUME UNCHANGED <<phase, searcher, tasks>>, segments' \in Seq(Seq(Document)),
              OneLiveDocument(segments')
       PROVE  Layout' /\ OneLiveDocument(segments')
  <2>1. phase' \in {"idle", "collecting", "done"} /\ searcher' \in Seq(Seq(Document))
        /\ (phase' = "collecting" => Planned(searcher', tasks'))
    BY <1>10 DEF Layout
  <2> QED BY <1>2, <1>3, <1>10, <2>1 DEF Layout
<1>11. ASSUME NEW k \in Keys, NEW v \in Values \cup {Null}, Upsert(k, v)
       PROVE  Layout' /\ OneLiveDocument(segments')
  <2>1. v \in Cell
    BY <1>11 DEF Upsert, Cell
  <2>2. segments' = Append(Kill(k), <<Doc(k, v)>>) /\ UNCHANGED <<phase, searcher, tasks>>
    BY <1>11 DEF Upsert, Written
  <2>3. segments' \in Seq(Seq(Document)) /\ OneLiveDocument(segments')
    BY <1>4, <2>1, <2>2, UpsertType
  <2> QED BY <1>10, <2>2, <2>3
<1>12. ASSUME NEW k \in Keys, Delete(k) PROVE Layout' /\ OneLiveDocument(segments')
  <2>1. segments' = Kill(k) /\ UNCHANGED <<phase, searcher, tasks>>
    BY <1>12 DEF Delete, Written
  <2>2. segments' \in Seq(Seq(Document)) /\ OneLiveDocument(segments')
    BY <1>4, <2>1, KillType, KillOneLive
  <2> QED BY <1>10, <2>1, <2>2
<1>13. ASSUME NEW n \in Targets, Optimize(n) PROVE Layout' /\ OneLiveDocument(segments')
  <2>1. PICK order \in MergeOrders : segments' = Optimized(BalancedMergeGroups(order, n))
    BY <1>13 DEF Optimize
  <2>2. n \in Nat \ {0}
    BY ListingAssumption
  <2>3. segments' \in Seq(Seq(Document)) /\ OneLiveDocument(segments')
    BY <1>4, <2>1, <2>2, OptimizedKeeps
  <2>4. UNCHANGED <<phase, searcher, tasks>>
    BY <1>13 DEF Optimize
  <2> QED BY <1>10, <2>3, <2>4
<1>14. CASE UNCHANGED vars
  BY <1>5, <1>14 DEF vars
<1> QED BY <1>5, <1>6, <1>7, <1>8, <1>9, <1>11, <1>12, <1>13, <1>14 DEF Next

LEMMA LayoutInvariant == Spec => [](Layout /\ OneLiveDocument(segments))
<1>1. Layout /\ OneLiveDocument(segments) /\ [Next]_vars
        => (Layout /\ OneLiveDocument(segments))'
  BY LayoutStep
<1> QED BY <1>1, InitialLayout, PTL DEF Spec

(***************************************************************************)
(* Every document of the searcher lies in exactly one task of a page,      *)
(* whatever the pool size, the segment sizes, the collector and the writes *)
(* and merges of the listing (segment_ranges.rs).                          *)
(***************************************************************************)
THEOREM TasksPartition == Spec => []RangesPartition
BY LayoutInvariant, LayoutPartitions, PTL

(***************************************************************************)
(* Optimize leaves at most the target number of segments and every live    *)
(* row exactly once, for every layout of segments (optimize.rs).           *)
(***************************************************************************)
THEOREM OptimizeKeeps == Spec => OptimizeKeepsRows
<1> DEFINE Kept == \A n \in Targets : Optimize(n) =>
                     /\ Len(segments') <= n
                     /\ LiveRows(segments') = LiveRows(segments)
                     /\ OneLiveDocument(segments')
<1>1. ASSUME Layout, OneLiveDocument(segments) PROVE Kept
  <2> SUFFICES ASSUME NEW n \in Targets, Optimize(n)
               PROVE  /\ Len(segments') <= n
                      /\ LiveRows(segments') = LiveRows(segments)
                      /\ OneLiveDocument(segments')
    OBVIOUS
  <2>1. PICK order \in MergeOrders : segments' = Optimized(BalancedMergeGroups(order, n))
    BY DEF Optimize
  <2>2. n \in Nat \ {0}
    BY ListingAssumption
  <2>3. segments \in Seq(Seq(Document))
    BY <1>1 DEF Layout
  <2> QED BY <1>1, <2>1, <2>2, <2>3, OptimizedKeeps
<1>2. Layout /\ OneLiveDocument(segments) /\ [Next]_vars => [Kept]_vars
  BY <1>1
<1> QED BY <1>2, LayoutInvariant, PTL DEF Spec, OptimizeKeepsRows

-----------------------------------------------------------------------------
(* The order of hits is total.                                             *)

LEMMA MinOfNumbers ==
  ASSUME NEW S \in SUBSET Nat, S # {}
  PROVE  Min(S) \in S /\ \A y \in S : Min(S) <= y
<1>1. PICK x \in S : \A y \in S : ~ (<<y, x>> \in OpToRel(<, Nat))
  BY WFMin, NatLessThanWellFounded
<1>2. \A y \in S : ~ (y < x)
  BY <1>1 DEF OpToRel
<1>3. \A y \in S : x <= y
  BY <1>2
<1> QED BY <1>3 DEF Min

KeyValue == Int \cup {Null}

AnyHit == [keys : [DOMAIN plan.order -> KeyValue], address : Nat \X Nat]

\* How a key of the order compares, and where the order of two hits is decided.
KeyBefore(i, l, r) == IF plan.order[i].asc THEN Less(l, r) ELSE Less(r, l)

DecidedAt(i, a, b) ==
  /\ \A j \in DOMAIN plan.order : j < i => a.keys[j] = b.keys[j]
  /\ a.keys[i] # b.keys[i]
  /\ KeyBefore(i, a.keys[i], b.keys[i])

LEMMA LessTotal ==
  /\ \A l \in KeyValue : ~Less(l, l)
  /\ \A l, r \in KeyValue : l = r \/ Less(l, r) \/ Less(r, l)
  /\ \A l, m, r \in KeyValue : Less(l, m) /\ Less(m, r) => Less(l, r)
<1>1. Null \notin Int
  BY ListingAssumption
<1>2. \A l \in KeyValue : ~Less(l, l)
  BY DEF KeyValue, Less
<1>3. \A l, r \in KeyValue : l = r \/ Less(l, r) \/ Less(r, l)
  BY DEF KeyValue, Less
<1>4. \A l, m, r \in KeyValue : Less(l, m) /\ Less(m, r) => Less(l, r)
  BY DEF KeyValue, Less
<1> QED BY <1>2, <1>3, <1>4

LEMMA KeyBeforeTotal ==
  ASSUME NEW i
  PROVE  /\ \A l \in KeyValue : ~KeyBefore(i, l, l)
         /\ \A l, r \in KeyValue : l = r \/ KeyBefore(i, l, r) \/ KeyBefore(i, r, l)
         /\ \A l, m, r \in KeyValue : KeyBefore(i, l, m) /\ KeyBefore(i, m, r) => KeyBefore(i, l, r)
BY LessTotal DEF KeyBefore

\* The first differing key decides, or the address.
LEMMA BeforeDecided ==
  ASSUME PlanOK, NEW a \in AnyHit, NEW b \in AnyHit
  PROVE  Before(a, b) <=>
           \/ \E i \in DOMAIN plan.order : DecidedAt(i, a, b)
           \/ a.keys = b.keys /\ AddressBefore(a.address, b.address)
<1> DEFINE O == DOMAIN plan.order
           differ == {i \in O : a.keys[i] # b.keys[i]}
           first == Min(differ)
<1>1. O = 1..Len(plan.order) /\ Len(plan.order) \in Nat
  BY OrderType DEF PlanOK
<1>2. a.keys \in [O -> KeyValue] /\ b.keys \in [O -> KeyValue]
  BY DEF AnyHit
<1>3. Before(a, b) <=> IF differ = {} THEN AddressBefore(a.address, b.address)
                       ELSE KeyBefore(first, a.keys[first], b.keys[first])
  BY DEF Before, KeyBefore
<1>4. CASE differ = {}
  <2>1. a.keys = b.keys
    BY <1>2, <1>4
  <2>2. \A i \in O : ~DecidedAt(i, a, b)
    BY <1>4 DEF DecidedAt
  <2> QED BY <1>3, <1>4, <2>1, <2>2
<1>5. CASE differ # {}
  <2>1. differ \in SUBSET Nat
    BY <1>1
  <2>2. first \in differ /\ \A j \in differ : first <= j
    BY <1>5, <2>1, MinOfNumbers
  <2>3. a.keys # b.keys
    BY <1>5
  <2> HIDE DEF first
  <2>4. \A j \in O : j < first => a.keys[j] = b.keys[j]
    BY <1>1, <2>2
  <2>5. ASSUME NEW i \in O, DecidedAt(i, a, b) PROVE i = first
    <3>1. i \in differ
      BY <2>5 DEF DecidedAt
    <3>2. first <= i /\ first \in O /\ first \in Nat /\ i \in Nat
      BY <1>1, <2>2, <3>1
    <3>3. ~ (first < i)
      BY <2>2, <2>5 DEF DecidedAt
    <3> QED BY <3>2, <3>3
  <2>6. DecidedAt(first, a, b) <=> KeyBefore(first, a.keys[first], b.keys[first])
    BY <2>2, <2>4 DEF DecidedAt
  <2>7. first \in O
    BY <2>2
  <2> HIDE DEF differ
  <2> QED BY <1>3, <1>5, <2>3, <2>5, <2>6, <2>7
<1> QED BY <1>4, <1>5

LEMMA BeforeTotal ==
  ASSUME PlanOK
  PROVE  /\ \A a \in AnyHit : ~Before(a, a)
         /\ \A a, b \in AnyHit : a = b \/ Before(a, b) \/ Before(b, a)
         /\ \A a, b, c \in AnyHit : Before(a, b) /\ Before(b, c) => Before(a, c)
<1> DEFINE O == DOMAIN plan.order
<1>1. O = 1..Len(plan.order) /\ Len(plan.order) \in Nat
  BY OrderType DEF PlanOK
<1>2. \A a \in AnyHit : /\ a.keys \in [O -> KeyValue] /\ a.address \in Nat \X Nat
                        /\ \A i \in O : a.keys[i] \in KeyValue
  BY DEF AnyHit
<1>3. /\ \A x \in Nat \X Nat : ~AddressBefore(x, x)
      /\ \A x, y \in Nat \X Nat : x = y \/ AddressBefore(x, y) \/ AddressBefore(y, x)
      /\ \A x, y, z \in Nat \X Nat : AddressBefore(x, y) /\ AddressBefore(y, z) => AddressBefore(x, z)
  <2> DEFINE S == Nat \X Nat
             R == {p \in S \X S : AddressBefore(p[1], p[2])}
  <2>1. Total(S, R)
    BY AddressesTotal
  <2>2. \A x, y \in S : <<x, y>> \in R <=> AddressBefore(x, y)
    OBVIOUS
  <2> HIDE DEF S, R
  <2>3. /\ \A x \in S : <<x, x>> \notin R
        /\ \A x, y \in S : x = y \/ <<x, y>> \in R \/ <<y, x>> \in R
        /\ \A x, y, z \in S : <<x, y>> \in R /\ <<y, z>> \in R => <<x, z>> \in R
    BY <2>1 DEF Total
  <2>4. \A x \in S : ~AddressBefore(x, x)
    BY <2>2, <2>3
  <2>5. \A x, y \in S : x = y \/ AddressBefore(x, y) \/ AddressBefore(y, x)
    BY <2>2, <2>3
  <2>6. \A x, y, z \in S : AddressBefore(x, y) /\ AddressBefore(y, z) => AddressBefore(x, z)
    BY <2>2, <2>3
  <2> QED BY <2>4, <2>5, <2>6 DEF S
<1>4. ASSUME NEW a \in AnyHit PROVE ~Before(a, a)
  <2>1. \A i \in O : ~DecidedAt(i, a, a)
    BY DEF DecidedAt
  <2>2. ~AddressBefore(a.address, a.address)
    BY <1>2, <1>3
  <2> QED BY <2>1, <2>2, BeforeDecided
<1>5. ASSUME NEW a \in AnyHit, NEW b \in AnyHit, a # b PROVE Before(a, b) \/ Before(b, a)
  <2>1. CASE a.keys = b.keys
    <3>1. a.address # b.address
      BY <1>5, <2>1 DEF AnyHit
    <3>2. AddressBefore(a.address, b.address) \/ AddressBefore(b.address, a.address)
      BY <1>2, <1>3, <3>1
    <3> QED BY <2>1, <3>2, BeforeDecided
  <2>2. CASE a.keys # b.keys
    <3> DEFINE differ == {i \in O : a.keys[i] # b.keys[i]}
               i == Min(differ)
    <3>1. differ # {} /\ differ \in SUBSET Nat
      BY <1>1, <1>2, <2>2
    <3>2. i \in differ /\ \A j \in differ : i <= j
      BY <3>1, MinOfNumbers
    <3> HIDE DEF i
    <3>3. i \in O /\ a.keys[i] # b.keys[i] /\ \A j \in O : j < i => a.keys[j] = b.keys[j]
      BY <1>1, <3>2
    <3>4. KeyBefore(i, a.keys[i], b.keys[i]) \/ KeyBefore(i, b.keys[i], a.keys[i])
      BY <1>2, <3>3, KeyBeforeTotal
    <3>5. DecidedAt(i, a, b) \/ DecidedAt(i, b, a)
      BY <3>3, <3>4 DEF DecidedAt
    <3> QED BY <3>3, <3>5, BeforeDecided
  <2> QED BY <2>1, <2>2
<1>6. ASSUME NEW a \in AnyHit, NEW b \in AnyHit, NEW c \in AnyHit, Before(a, b), Before(b, c)
      PROVE  Before(a, c)
  <2>1. \/ \E i \in O : DecidedAt(i, a, b)
        \/ a.keys = b.keys /\ AddressBefore(a.address, b.address)
    BY <1>6, BeforeDecided
  <2>2. \/ \E i \in O : DecidedAt(i, b, c)
        \/ b.keys = c.keys /\ AddressBefore(b.address, c.address)
    BY <1>6, BeforeDecided
  <2>3. SUFFICES \/ \E i \in O : DecidedAt(i, a, c)
                 \/ a.keys = c.keys /\ AddressBefore(a.address, c.address)
    BY BeforeDecided
  <2>4. ASSUME NEW i \in O, DecidedAt(i, a, b), NEW j \in O, DecidedAt(j, b, c)
        PROVE  \E k \in O : DecidedAt(k, a, c)
    <3>1. i \in Nat /\ j \in Nat /\ \A k \in O : k \in Nat
      BY <1>1
    <3>2. CASE i < j
      <4>1. DecidedAt(i, a, c)
        BY <2>4, <3>1, <3>2 DEF DecidedAt
      <4> QED BY <4>1
    <3>3. CASE j < i
      <4>1. DecidedAt(j, a, c)
        BY <2>4, <3>1, <3>3 DEF DecidedAt
      <4> QED BY <4>1
    <3>4. CASE i = j
      <4>1. \A k \in O : k < i => a.keys[k] = c.keys[k]
        BY <2>4, <3>4 DEF DecidedAt
      <4>2. KeyBefore(i, a.keys[i], b.keys[i]) /\ KeyBefore(i, b.keys[i], c.keys[i])
        BY <2>4, <3>4 DEF DecidedAt
      <4>3. a.keys[i] \in KeyValue /\ b.keys[i] \in KeyValue /\ c.keys[i] \in KeyValue
        BY <1>2
      <4>4. KeyBefore(i, a.keys[i], c.keys[i])
        BY <4>2, <4>3, KeyBeforeTotal
      <4>5. a.keys[i] # c.keys[i]
        BY <4>3, <4>4, KeyBeforeTotal
      <4>6. DecidedAt(i, a, c)
        BY <4>1, <4>4, <4>5 DEF DecidedAt
      <4> QED BY <4>6
    <3> QED BY <3>1, <3>2, <3>3, <3>4
  <2>5. ASSUME NEW i \in O, DecidedAt(i, a, b), b.keys = c.keys PROVE DecidedAt(i, a, c)
    BY <2>5 DEF DecidedAt
  <2>6. ASSUME NEW i \in O, DecidedAt(i, b, c), a.keys = b.keys PROVE DecidedAt(i, a, c)
    BY <2>6 DEF DecidedAt
  <2>7. ASSUME AddressBefore(a.address, b.address), AddressBefore(b.address, c.address)
        PROVE  AddressBefore(a.address, c.address)
    BY <1>2, <1>3, <2>7
  <2> QED BY <2>1, <2>2, <2>4, <2>5, <2>6, <2>7
<1> QED BY <1>4, <1>5, <1>6

LEMMA PrecedesTotal ==
  ASSUME PlanOK, NEW S \in SUBSET AnyHit
  PROVE  Total(S, Precedes(S))
<1>1. \A a, b \in S : <<a, b>> \in Precedes(S) <=> Before(a, b)
  BY DEF Precedes
<1> QED BY <1>1, BeforeTotal DEF Total

\* The comparator of Tantivy's sort gives the same order.
LEMMA NativeIsBefore ==
  ASSUME PlanOK, NEW a \in AnyHit, NEW b \in AnyHit
  PROVE  NativeBefore(a, b) <=> Before(a, b)
<1> DEFINE O == DOMAIN plan.order
           differ == {i \in O : a.keys[i] # b.keys[i]}
           first == Min(differ)
           l == a.keys[first]
           r == b.keys[first]
<1>1. Before(a, b) <=> IF differ = {} THEN AddressBefore(a.address, b.address)
                       ELSE IF plan.order[first].asc THEN Less(l, r) ELSE Less(r, l)
  BY DEF Before
<1>2. NativeBefore(a, b) <=> IF differ = {} THEN AddressBefore(a.address, b.address)
                             ELSE IF plan.order[first].asc THEN r = Null \/ (l # Null /\ l < r)
                                  ELSE l = Null \/ (r # Null /\ r < l)
  BY DEF NativeBefore
<1>3. CASE differ = {}
  BY <1>1, <1>2, <1>3
<1>4. CASE differ # {}
  <2>1. differ \in SUBSET Nat
    BY OrderType DEF PlanOK
  <2>2. first \in differ
    BY <1>4, <2>1, MinOfNumbers
  <2>3. l # r
    BY <2>2
  <2> HIDE DEF first, l, r
  <2> QED BY <1>1, <1>2, <1>4, <2>3 DEF Less
<1> QED BY <1>3, <1>4

-----------------------------------------------------------------------------
(* A bounded buffer keeps the best hits.                                   *)

\* The best by the order of hits are the best by its relation on a larger set.
LEMMA BestIsTop ==
  ASSUME NEW V, NEW S \in SUBSET V, NEW n
  PROVE  Best(S, n) = Top(S, Precedes(V), n)
<1>1. \A h \in S : Below(S, Precedes(V), h) = {g \in S : Before(g, h)}
  BY DEF Below, Precedes
<1> QED BY <1>1 DEF Best, Top, Rank

\* A buffer that has seen the hits V, a part of W, holds the best TopN of them; its
\* threshold is no better than the last of these.
Buffer == [hits : SUBSET AnyHit, threshold : AnyHit \cup {NoHit}]

Keeps(buffer, V, W) ==
  /\ buffer \in Buffer
  /\ buffer.hits \subseteq V
  /\ Top(V, Precedes(W), TopN) \subseteq buffer.hits
  /\ buffer.threshold # NoHit =>
       /\ buffer.threshold \in V
       /\ Rank(V, Precedes(W), buffer.threshold) + 1 >= TopN

LEMMA TruncateKeeps ==
  ASSUME PlanOK, TopN \in Nat \ {0}, NEW W \in SUBSET AnyHit, IsFiniteSet(W),
         NEW V \in SUBSET W, NEW b, Keeps(b, V, W)
  PROVE  /\ Keeps(Truncate(b), V, W)
         /\ Truncate(b).hits \subseteq b.hits
<1> DEFINE R == Precedes(W)
           kept == Best(b.hits, TopN)
           worst == CHOOSE h \in kept : \A g \in kept : g = h \/ Before(g, h)
<1>1. /\ b \in Buffer /\ b.hits \in SUBSET V /\ b.hits \in SUBSET W
      /\ Top(V, R, TopN) \subseteq b.hits
  BY DEF Keeps
<1>2. IsFiniteSet(V) /\ IsFiniteSet(b.hits)
  BY <1>1, FS_Subset
<1>3. Total(W, R) /\ Total(V, R) /\ Total(b.hits, R)
  <2>1. Total(W, R)
    BY PrecedesTotal
  <2> HIDE DEF R
  <2> QED BY <1>1, <2>1, TotalSubset
<1>4. kept = Top(b.hits, R, TopN)
  BY <1>1, BestIsTop
<1>5. Truncate(b) = IF Cardinality(b.hits) <= TopN THEN b
                    ELSE [hits |-> kept, threshold |-> worst]
  BY DEF Truncate
<1> HIDE DEF R, kept
<1>6. kept = Top(V, R, TopN)
  BY <1>1, <1>2, <1>3, <1>4, TopOfSubset
<1>7. CASE Cardinality(b.hits) <= TopN
  BY <1>5, <1>7
<1>8. CASE ~ (Cardinality(b.hits) <= TopN)
  <2>1. Cardinality(b.hits) \in Nat /\ TopN <= Cardinality(b.hits)
    BY <1>2, <1>8, FS_CardinalityType
  <2>2. Cardinality(kept) = TopN /\ IsFiniteSet(kept) /\ kept \in SUBSET b.hits
    BY <1>2, <1>3, <1>4, <2>1, TopSize
  <2>3. Cardinality(V) \in Nat /\ TopN <= Cardinality(V)
    BY <1>1, <1>2, <2>1, FS_Subset, FS_CardinalityType
  <2>4. PICK h \in V : Rank(V, R, h) = TopN - 1
    <3>1. TopN - 1 \in 0..(Cardinality(V) - 1)
      BY <2>3
    <3> QED BY <1>2, <1>3, <3>1, RankOnto
  <2>5. h \in kept
    <3>1. Rank(V, R, h) < TopN
      BY <2>4
    <3> QED BY <1>6, <3>1 DEF Top
  <2>6. ASSUME NEW g \in kept PROVE g = h \/ Before(g, h)
    <3>1. g \in V /\ Rank(V, R, g) < TopN
      BY <1>6 DEF Top
    <3>2. Rank(V, R, g) \in Nat
      BY <1>2, RankType
    <3>3. Rank(V, R, g) = Rank(V, R, h) \/ Rank(V, R, g) < Rank(V, R, h)
      BY <2>4, <3>1, <3>2
    <3>4. g = h \/ <<g, h>> \in R
      BY <1>2, <1>3, <3>1, <3>3, RankOrders
    <3> QED BY <3>4 DEF R, Precedes
  <2>7. worst \in kept /\ \A g \in kept : g = worst \/ Before(g, worst)
    BY <2>5, <2>6
  <2> HIDE DEF worst
  <2>8. worst = h
    <3>1. worst \in AnyHit /\ h \in AnyHit
      BY <1>1, <2>2, <2>5, <2>7
    <3>2. h = worst \/ Before(h, worst)
      BY <2>5, <2>7
    <3>3. worst = h \/ Before(worst, h)
      BY <2>6, <2>7
    <3> QED BY <3>1, <3>2, <3>3, BeforeTotal
  <2>9. Truncate(b) = [hits |-> kept, threshold |-> h]
    BY <1>5, <1>8, <2>8
  <2>10. kept \in SUBSET AnyHit /\ h \in AnyHit /\ kept \in SUBSET V
    BY <1>1, <2>2, <2>5
  <2>11. Truncate(b) \in Buffer
    BY <2>9, <2>10 DEF Buffer
  <2>12. (TopN - 1) + 1 >= TopN
    OBVIOUS
  <2>13. Truncate(b).hits = kept /\ Truncate(b).threshold = h
    BY <2>9
  <2>14. Keeps(Truncate(b), V, W)
    BY <1>6, <2>4, <2>10, <2>11, <2>12, <2>13 DEF Keeps, R
  <2> QED BY <2>2, <2>13, <2>14
<1> QED BY <1>7, <1>8

\* What is worse than the threshold is not among the best.
LEMMA SkipKeeps ==
  ASSUME PlanOK, TopN \in Nat \ {0}, NEW W \in SUBSET AnyHit, IsFiniteSet(W),
         NEW V \in SUBSET W, NEW b, Keeps(b, V, W), NEW x \in W, x \notin V,
         b.threshold # NoHit, ~Before(x, b.threshold)
  PROVE  Keeps(b, V \cup {x}, W)
<1> DEFINE R == Precedes(W)
           U == V \cup {x}
           t == b.threshold
<1>1. /\ b \in Buffer /\ b.hits \subseteq V /\ Top(V, R, TopN) \subseteq b.hits
      /\ t \in V /\ Rank(V, R, t) + 1 >= TopN
  BY DEF Keeps
<1>2. U \in SUBSET W /\ V \in SUBSET U
  OBVIOUS
<1>3. IsFiniteSet(U) /\ IsFiniteSet(V)
  BY <1>2, FS_Subset
<1>4. Total(W, R)
  BY PrecedesTotal
<1>5. <<t, x>> \in R
  <2>1. t \in AnyHit /\ x \in AnyHit /\ t # x
    BY <1>1
  <2>2. Before(t, x)
    BY <2>1, BeforeTotal
  <2> QED BY <1>1, <2>2 DEF Precedes
<1> HIDE DEF R, U, t
<1>6. Total(U, R)
  BY <1>2, <1>4, TotalSubset
<1>7. Rank(V, R, t) <= Rank(U, R, t) /\ Rank(V, R, t) \in Nat /\ Rank(U, R, t) \in Nat
  BY <1>2, <1>3, RankSubset, RankType
<1>8. t \in U /\ x \in U
  BY <1>1, <1>2 DEF U
<1>9. Rank(U, R, t) < Rank(U, R, x) /\ Rank(U, R, x) \in Nat
  BY <1>3, <1>5, <1>6, <1>8, RankMonotone, RankType
<1>10. x \notin Top(U, R, TopN)
  BY <1>1, <1>7, <1>9 DEF Top
<1>11. Top(U, R, TopN) \cap V \subseteq Top(V, R, TopN)
  BY <1>2, <1>3, TopOfPart
<1>12. Top(U, R, TopN) \subseteq b.hits
  BY <1>1, <1>10, <1>11 DEF Top, U
<1>13. Rank(U, R, t) + 1 >= TopN
  BY <1>1, <1>7
<1> QED BY <1>1, <1>2, <1>8, <1>12, <1>13 DEF Keeps, R, U, t

LEMMA AddKeeps ==
  ASSUME PlanOK, TopN \in Nat \ {0}, NEW W \in SUBSET AnyHit, IsFiniteSet(W),
         NEW V \in SUBSET W, NEW b, Keeps(b, V, W), NEW x \in W, x \notin V
  PROVE  Keeps([b EXCEPT !.hits = @ \cup {x}], V \cup {x}, W)
<1> DEFINE R == Precedes(W)
           U == V \cup {x}
           t == b.threshold
           c == [b EXCEPT !.hits = @ \cup {x}]
<1>1. /\ b \in Buffer /\ b.hits \subseteq V /\ Top(V, R, TopN) \subseteq b.hits
      /\ t # NoHit => t \in V /\ Rank(V, R, t) + 1 >= TopN
  BY DEF Keeps
<1>2. U \in SUBSET W /\ V \in SUBSET U
  OBVIOUS
<1>3. IsFiniteSet(U) /\ IsFiniteSet(V)
  BY <1>2, FS_Subset
<1>4. c \in Buffer /\ c.hits = b.hits \cup {x} /\ c.threshold = t
  BY <1>1 DEF Buffer
<1> HIDE DEF R, U, t, c
<1>5. Top(U, R, TopN) \cap V \subseteq Top(V, R, TopN)
  BY <1>2, <1>3, TopOfPart
<1>6. Top(U, R, TopN) \subseteq c.hits
  BY <1>1, <1>4, <1>5 DEF Top, U
<1>7. ASSUME t # NoHit PROVE t \in U /\ Rank(U, R, t) + 1 >= TopN
  <2>1. Rank(V, R, t) <= Rank(U, R, t) /\ Rank(V, R, t) \in Nat /\ Rank(U, R, t) \in Nat
    BY <1>2, <1>3, RankSubset, RankType
  <2> QED BY <1>1, <1>2, <1>7, <2>1
<1>8. c.hits \subseteq U
  BY <1>1, <1>4 DEF U
<1>9. Keeps(c, U, W)
  BY <1>4, <1>6, <1>7, <1>8 DEF Keeps, R
<1> QED BY <1>9 DEF c, U

\* Each collector's push.
LEMMA PushKeeps ==
  ASSUME PlanOK, plan.collector \in {"block", "scored", "materialized"},
         TopN \in Nat \ {0}, NEW W \in SUBSET AnyHit, IsFiniteSet(W),
         NEW V \in SUBSET W, NEW b, Keeps(b, V, W), NEW x \in W, x \notin V
  PROVE  Keeps(Push(b, x), V \cup {x}, W)
<1>1. Keeps(PushBlock(b, x), V \cup {x}, W)
  <2> DEFINE room == IF Cardinality(b.hits) = Capacity(BlockSlack) THEN Truncate(b) ELSE b
  <2>1. Keeps(room, V, W)
    BY TruncateKeeps
  <2>2. PushBlock(b, x) = IF TopN = 0 \/ (b.threshold # NoHit /\ ~Before(x, b.threshold))
                          THEN b ELSE [room EXCEPT !.hits = @ \cup {x}]
    BY DEF PushBlock
  <2> HIDE DEF room
  <2>3. CASE b.threshold # NoHit /\ ~Before(x, b.threshold)
    BY <2>2, <2>3, SkipKeeps
  <2>4. CASE ~ (b.threshold # NoHit /\ ~Before(x, b.threshold))
    <3>1. PushBlock(b, x) = [room EXCEPT !.hits = @ \cup {x}]
      BY <2>2, <2>4
    <3> QED BY <2>1, <3>1, AddKeeps
  <2> QED BY <2>3, <2>4
<1>2. Keeps(PushMaterialized(b, x), V \cup {x}, W)
  <2> DEFINE full == [b EXCEPT !.hits = @ \cup {x}]
             U == V \cup {x}
             cut == Truncate(full)
  <2>1. Keeps(full, U, W)
    BY AddKeeps
  <2>2. U \in SUBSET W
    OBVIOUS
  <2>3. PushMaterialized(b, x) = IF Cardinality(full.hits) = Capacity(MaterializedSlack)
                                 THEN [cut EXCEPT !.threshold = NoHit] ELSE full
    BY DEF PushMaterialized
  <2> HIDE DEF full, U
  <2>4. Keeps(cut, U, W)
    BY <2>1, <2>2, TruncateKeeps
  <2> HIDE DEF cut
  <2>5. Keeps([cut EXCEPT !.threshold = NoHit], U, W)
    <3> DEFINE d == [cut EXCEPT !.threshold = NoHit]
    <3>1. d \in Buffer /\ d.hits = cut.hits /\ d.threshold = NoHit
      BY <2>4 DEF Keeps, Buffer
    <3> HIDE DEF d
    <3>2. Keeps(d, U, W)
      BY <2>4, <3>1 DEF Keeps
    <3> QED BY <3>2 DEF d
  <2> QED BY <2>1, <2>3, <2>5 DEF U
<1>3. Push(b, x) = IF plan.collector = "materialized" THEN PushMaterialized(b, x) ELSE PushBlock(b, x)
  BY DEF Push, PushScored
<1> QED BY <1>1, <1>2, <1>3

-----------------------------------------------------------------------------
(* The hits of a task.                                                     *)

LEMMA ValueType ==
  ASSUME NEW d \in Document, NEW key \in {"pk", "val", "_score"}
  PROVE  Value(d, key) \in KeyValue
<1>1. d.pk \in Int /\ d.val \in Values \cup {Null}
  <2>1. Cardinality(Keys) \in Nat /\ Keys = 1..Cardinality(Keys)
    BY ListingAssumption, FS_CardinalityType
  <2>2. d.pk \in Keys /\ d.val \in Cell
    BY DEF Document
  <2> QED BY <2>1, <2>2 DEF Cell
<1>2. d.val \in KeyValue
  BY <1>1, ListingAssumption DEF KeyValue
<1>3. Score(d) \in Int
  BY <1>1 DEF Score
<1> QED BY <1>1, <1>2, <1>3 DEF Value, KeyValue

Dictionary(seg) == {c.val : c \in Range(seg)} \ {Null}

Ordinal(seg, v) == Cardinality({w \in Dictionary(seg) : w < v})

LEMMA DictionaryType ==
  ASSUME NEW seg \in Seq(Document)
  PROVE  /\ IsFiniteSet(Dictionary(seg)) /\ Dictionary(seg) \in SUBSET Int
         /\ \A i \in DOMAIN seg : seg[i].val # Null => seg[i].val \in Dictionary(seg)
<1> DEFINE f == [i \in DOMAIN seg |-> seg[i].val]
           T == {f[i] : i \in DOMAIN seg}
<1>1. Len(seg) \in Nat /\ DOMAIN seg = 1..Len(seg) /\ \A i \in DOMAIN seg : seg[i] \in Document
  BY LenProperties, ElementOfSeq
<1>2. IsFiniteSet(DOMAIN seg)
  BY <1>1, FS_Interval
<1>3. f \in Surjection(DOMAIN seg, T)
  BY DEF Surjection
<1>4. IsFiniteSet(T)
  BY <1>2, <1>3, FS_Surjection
<1>5. T = {c.val : c \in Range(seg)}
  BY DEF Range
<1>6. Dictionary(seg) \in SUBSET T
  BY <1>5 DEF Dictionary
<1>7. \A i \in DOMAIN seg : seg[i].val \in Int \cup {Null}
  BY <1>1, ListingAssumption DEF Document, Cell
<1>8. Dictionary(seg) \in SUBSET Int
  BY <1>5, <1>7 DEF Dictionary
<1>9. IsFiniteSet(Dictionary(seg))
  BY <1>4, <1>6, FS_Subset
<1>10. \A i \in DOMAIN seg : seg[i].val # Null => seg[i].val \in Dictionary(seg)
  BY <1>5 DEF Dictionary
<1> QED BY <1>8, <1>9, <1>10

\* Ordinals of one dictionary are in the order of its terms.
LEMMA OrdinalOrder ==
  ASSUME NEW seg \in Seq(Document), NEW v \in Dictionary(seg), NEW w \in Dictionary(seg)
  PROVE  /\ Ordinal(seg, v) \in Nat
         /\ Ordinal(seg, v) = Ordinal(seg, w) <=> v = w
         /\ Ordinal(seg, v) < Ordinal(seg, w) <=> v < w
<1> DEFINE S == Dictionary(seg)
           R == {p \in S \X S : p[1] < p[2]}
<1>1. IsFiniteSet(S) /\ S \in SUBSET Int
  BY DictionaryType
<1>2. \A x, y \in S : <<x, y>> \in R <=> x < y
  OBVIOUS
<1>3. Total(S, R)
  <2> HIDE DEF R, S
  <2> QED BY <1>1, <1>2 DEF Total
<1>4. ASSUME NEW x \in S PROVE Ordinal(seg, x) = Rank(S, R, x)
  <2>1. {y \in S : y < x} = Below(S, R, x)
    BY DEF Below
  <2> QED BY <2>1 DEF Ordinal, Rank
<1> HIDE DEF R, S
<1>5. v \in S /\ w \in S
  BY DEF S
<1>6. /\ Rank(S, R, v) \in Nat
      /\ Rank(S, R, v) = Rank(S, R, w) => v = w
      /\ Rank(S, R, v) < Rank(S, R, w) <=> <<v, w>> \in R
  BY <1>1, <1>3, <1>5, RankOrders, RankType
<1> QED BY <1>2, <1>4, <1>5, <1>6

LEMMA SegmentValueIs ==
  ASSUME NEW seg, NEW d, NEW key
  PROVE  SegmentValue(seg, d, key) =
           IF key = "val" /\ plan.type = "Text" /\ d.val # Null THEN Ordinal(seg, d.val)
           ELSE Value(d, key)
BY DEF SegmentValue, Ordinal, Dictionary

\* Within a segment the keys of its own give the order of the values.
LEMMA SegmentValueOrder ==
  ASSUME NEW seg \in Seq(Document), NEW i \in DOMAIN seg, NEW j \in DOMAIN seg,
         NEW key \in {"pk", "val", "_score"}
  PROVE  /\ SegmentValue(seg, seg[i], key) \in KeyValue
         /\ SegmentValue(seg, seg[i], key) = SegmentValue(seg, seg[j], key)
              <=> Value(seg[i], key) = Value(seg[j], key)
         /\ Less(SegmentValue(seg, seg[i], key), SegmentValue(seg, seg[j], key))
              <=> Less(Value(seg[i], key), Value(seg[j], key))
<1> DEFINE d == seg[i]
           e == seg[j]
<1>1. d \in Document /\ e \in Document
  BY ElementOfSeq, LenProperties
<1>2. Null \notin Int
  BY ListingAssumption
<1>3. CASE key = "val" /\ plan.type = "Text"
  <2>1. Value(d, key) = d.val /\ Value(e, key) = e.val
    BY <1>3 DEF Value
  <2>2. /\ SegmentValue(seg, d, key) = IF d.val # Null THEN Ordinal(seg, d.val) ELSE Null
        /\ SegmentValue(seg, e, key) = IF e.val # Null THEN Ordinal(seg, e.val) ELSE Null
    BY <1>3, <2>1, SegmentValueIs
  <2>3. /\ d.val # Null => d.val \in Dictionary(seg) /\ Ordinal(seg, d.val) \in Nat
        /\ e.val # Null => e.val \in Dictionary(seg) /\ Ordinal(seg, e.val) \in Nat
    BY DictionaryType, OrdinalOrder
  <2>4. d.val # Null /\ e.val # Null =>
          /\ Ordinal(seg, d.val) = Ordinal(seg, e.val) <=> d.val = e.val
          /\ Ordinal(seg, d.val) < Ordinal(seg, e.val) <=> d.val < e.val
    BY <2>3, OrdinalOrder
  <2> HIDE DEF d, e
  <2>5. /\ SegmentValue(seg, d, key) \in KeyValue
        /\ SegmentValue(seg, d, key) = SegmentValue(seg, e, key) <=> Value(d, key) = Value(e, key)
        /\ Less(SegmentValue(seg, d, key), SegmentValue(seg, e, key))
             <=> Less(Value(d, key), Value(e, key))
    BY <1>2, <2>1, <2>2, <2>3, <2>4 DEF Less, KeyValue
  <2> QED BY <2>5 DEF d, e
<1>4. CASE ~ (key = "val" /\ plan.type = "Text")
  <2>1. SegmentValue(seg, d, key) = Value(d, key) /\ SegmentValue(seg, e, key) = Value(e, key)
    BY <1>4, SegmentValueIs
  <2>2. Value(d, key) \in KeyValue
    BY <1>1, ValueType
  <2> HIDE DEF d, e
  <2>3. /\ SegmentValue(seg, d, key) \in KeyValue
        /\ SegmentValue(seg, d, key) = SegmentValue(seg, e, key) <=> Value(d, key) = Value(e, key)
        /\ Less(SegmentValue(seg, d, key), SegmentValue(seg, e, key))
             <=> Less(Value(d, key), Value(e, key))
    BY <2>1, <2>2
  <2> QED BY <2>3 DEF d, e
<1> QED BY <1>3, <1>4

\* A hit with the keys of its values.
GlobalHit(s, i) == [keys |-> GlobalKeys(searcher[s][i]), address |-> <<s, i>>]

LEMMA GlobalHitType ==
  ASSUME PlanOK, searcher \in Seq(Seq(Document)),
         NEW s \in DOMAIN searcher, NEW i \in DOMAIN searcher[s]
  PROVE  /\ GlobalHit(s, i) \in AnyHit
         /\ GlobalHit(s, i).address = <<s, i>>
         /\ \A k \in DOMAIN plan.order :
              GlobalHit(s, i).keys[k] = Value(searcher[s][i], plan.order[k].key)
<1>1. /\ s \in Nat /\ i \in Nat /\ searcher[s][i] \in Document
  BY SegmentFacts
<1>2. \A k \in DOMAIN plan.order : plan.order[k].key \in {"pk", "val", "_score"}
  BY OrderType DEF PlanOK
<1>3. \A k \in DOMAIN plan.order : Value(searcher[s][i], plan.order[k].key) \in KeyValue
  BY <1>1, <1>2, ValueType
<1>4. GlobalKeys(searcher[s][i]) \in [DOMAIN plan.order -> KeyValue]
  BY <1>3 DEF GlobalKeys
<1>5. <<s, i>> \in Nat \X Nat
  BY <1>1
<1>6. GlobalHit(s, i) \in AnyHit
  BY <1>4, <1>5 DEF AnyHit, GlobalHit
<1> QED BY <1>6 DEF GlobalHit, GlobalKeys

LEMMA HitType ==
  ASSUME PlanOK, searcher \in Seq(Seq(Document)), NEW t,
         t.seg \in DOMAIN searcher, NEW i \in DOMAIN searcher[t.seg]
  PROVE  /\ Hit(t, i) \in AnyHit
         /\ Hit(t, i).address = <<t.seg, i>>
         /\ \A k \in DOMAIN plan.order :
              Hit(t, i).keys[k] =
                IF plan.collector \in {"native", "scored"}
                THEN SegmentValue(searcher[t.seg], searcher[t.seg][i], plan.order[k].key)
                ELSE Value(searcher[t.seg][i], plan.order[k].key)
<1> DEFINE seg == searcher[t.seg]
           O == DOMAIN plan.order
<1>1. /\ t.seg \in Nat /\ i \in Nat /\ seg \in Seq(Document) /\ seg[i] \in Document
  BY SegmentFacts
<1>2. \A k \in O : plan.order[k].key \in {"pk", "val", "_score"}
  BY OrderType DEF PlanOK
<1>3. \A k \in O : /\ Value(seg[i], plan.order[k].key) \in KeyValue
                   /\ SegmentValue(seg, seg[i], plan.order[k].key) \in KeyValue
  BY <1>1, <1>2, ValueType, SegmentValueOrder
<1>4. GlobalKeys(seg[i]) \in [O -> KeyValue] /\ SegmentKeys(seg, seg[i]) \in [O -> KeyValue]
  BY <1>3 DEF GlobalKeys, SegmentKeys
<1>5. Hit(t, i) = [keys |-> IF plan.collector \in {"native", "scored"}
                            THEN SegmentKeys(seg, seg[i]) ELSE GlobalKeys(seg[i]),
                   address |-> <<t.seg, i>>]
  BY DEF Hit
<1>6. <<t.seg, i>> \in Nat \X Nat
  BY <1>1
<1>7. Hit(t, i) \in AnyHit
  BY <1>4, <1>5, <1>6 DEF AnyHit
<1>8. Hit(t, i).keys = IF plan.collector \in {"native", "scored"}
                       THEN SegmentKeys(seg, seg[i]) ELSE GlobalKeys(seg[i])
  BY <1>5
<1> QED BY <1>5, <1>7, <1>8 DEF GlobalKeys, SegmentKeys

\* A task sees its hits in the order of their values.
LEMMA HitOrder ==
  ASSUME PlanOK, searcher \in Seq(Seq(Document)), NEW t, t.seg \in DOMAIN searcher,
         NEW i \in DOMAIN searcher[t.seg], NEW j \in DOMAIN searcher[t.seg]
  PROVE  Before(Hit(t, i), Hit(t, j)) <=> Before(GlobalHit(t.seg, i), GlobalHit(t.seg, j))
<1> DEFINE O == DOMAIN plan.order
           seg == searcher[t.seg]
           a == Hit(t, i)
           b == Hit(t, j)
           c == GlobalHit(t.seg, i)
           d == GlobalHit(t.seg, j)
<1>1. /\ a \in AnyHit /\ b \in AnyHit /\ c \in AnyHit /\ d \in AnyHit
      /\ a.address = c.address /\ b.address = d.address
  BY HitType, GlobalHitType
<1>2. seg \in Seq(Document)
  BY SegmentFacts
<1>3. ASSUME NEW k \in O
      PROVE  /\ a.keys[k] = b.keys[k] <=> c.keys[k] = d.keys[k]
             /\ Less(a.keys[k], b.keys[k]) <=> Less(c.keys[k], d.keys[k])
             /\ Less(b.keys[k], a.keys[k]) <=> Less(d.keys[k], c.keys[k])
  <2> DEFINE key == plan.order[k].key
  <2>1. key \in {"pk", "val", "_score"}
    BY OrderType DEF PlanOK
  <2>2. c.keys[k] = Value(seg[i], key) /\ d.keys[k] = Value(seg[j], key)
    BY GlobalHitType
  <2>3. /\ a.keys[k] = IF plan.collector \in {"native", "scored"}
                       THEN SegmentValue(seg, seg[i], key) ELSE Value(seg[i], key)
        /\ b.keys[k] = IF plan.collector \in {"native", "scored"}
                       THEN SegmentValue(seg, seg[j], key) ELSE Value(seg[j], key)
    BY HitType
  <2>4. /\ SegmentValue(seg, seg[i], key) = SegmentValue(seg, seg[j], key)
             <=> Value(seg[i], key) = Value(seg[j], key)
        /\ Less(SegmentValue(seg, seg[i], key), SegmentValue(seg, seg[j], key))
             <=> Less(Value(seg[i], key), Value(seg[j], key))
        /\ Less(SegmentValue(seg, seg[j], key), SegmentValue(seg, seg[i], key))
             <=> Less(Value(seg[j], key), Value(seg[i], key))
    BY <1>2, <2>1, SegmentValueOrder
  <2> HIDE DEF a, b, c, d, seg, key
  <2> QED BY <2>2, <2>3, <2>4
<1> HIDE DEF a, b, c, d
<1>4. \A k \in O : DecidedAt(k, a, b) <=> DecidedAt(k, c, d)
  BY <1>3 DEF DecidedAt, KeyBefore
<1>5. a.keys = b.keys <=> c.keys = d.keys
  <2>1. /\ a.keys \in [O -> KeyValue] /\ b.keys \in [O -> KeyValue]
        /\ c.keys \in [O -> KeyValue] /\ d.keys \in [O -> KeyValue]
    BY <1>1 DEF AnyHit
  <2> QED BY <1>3, <2>1
<1>6. Before(a, b) <=> Before(c, d)
  BY <1>1, <1>4, <1>5, BeforeDecided
<1> QED BY <1>6 DEF a, b, c, d

\* A task is a range of documents of a segment; Matching are its first n that match.
IsTask(t) ==
  /\ t.seg \in DOMAIN searcher
  /\ t.from \in Nat /\ t.to \in Nat
  /\ t.from <= t.to /\ t.to <= Len(searcher[t.seg])

Matching(t, n) == {i \in (t.from + 1)..(t.from + n) : Matches(searcher[t.seg][i])}

Seen(t, n) == {Hit(t, i) : i \in Matching(t, n)}

LEMMA MatchingType ==
  ASSUME searcher \in Seq(Seq(Document)), NEW t, IsTask(t), NEW n \in 0..(t.to - t.from)
  PROVE  IsFiniteSet(Matching(t, n)) /\ Matching(t, n) \in SUBSET DOMAIN searcher[t.seg]
<1>1. Len(searcher[t.seg]) \in Nat /\ DOMAIN searcher[t.seg] = 1..Len(searcher[t.seg])
  BY SegmentFacts DEF IsTask
<1>2. Matching(t, n) \in SUBSET 1..Len(searcher[t.seg])
  <2>1. /\ t.from \in Nat /\ t.to \in Nat /\ t.from <= t.to
        /\ t.to <= Len(searcher[t.seg])
    BY DEF IsTask
  <2>2. (t.from + 1)..(t.from + n) \subseteq 1..Len(searcher[t.seg])
    <3> DEFINE from == t.from
               to == t.to
               len == Len(searcher[t.seg])
    <3>1. /\ from \in Nat /\ to \in Nat /\ len \in Nat /\ from <= to /\ to <= len
          /\ n \in 0..(to - from)
      BY <1>1, <2>1
    <3> HIDE DEF from, to, len
    <3>2. (from + 1)..(from + n) \subseteq 1..len
      BY <3>1
    <3> QED BY <3>2 DEF from, len
  <2> QED BY <2>2 DEF Matching
<1>3. IsFiniteSet(1..Len(searcher[t.seg]))
  BY <1>1, FS_Interval
<1> QED BY <1>1, <1>2, <1>3, FS_Subset

LEMMA VisitedType ==
  ASSUME PlanOK, searcher \in Seq(Seq(Document)), NEW t, IsTask(t)
  PROVE  /\ Visited(t) \in SUBSET AnyHit /\ IsFiniteSet(Visited(t))
         /\ Visited(t) = Seen(t, t.to - t.from)
<1> DEFINE n == t.to - t.from
           I == Matching(t, n)
           f == [i \in I |-> Hit(t, i)]
<1>1. n \in 0..n /\ t.from + n = t.to
  BY DEF IsTask
<1>2. I = {j \in (t.from + 1)..t.to : Matches(searcher[t.seg][j])}
  BY <1>1 DEF Matching
<1>3. Visited(t) = Seen(t, n)
  BY <1>2 DEF Visited, Seen
<1>4. IsFiniteSet(I) /\ I \in SUBSET DOMAIN searcher[t.seg]
  BY <1>1, MatchingType
<1>5. \A i \in I : Hit(t, i) \in AnyHit
  BY <1>4, HitType DEF IsTask
<1> HIDE DEF I, n
<1>6. f \in [I -> AnyHit]
  BY <1>5
<1>7. IsFiniteSet({f[i] : i \in I})
  BY <1>4, <1>6, FiniteImage
<1>8. Visited(t) = {f[i] : i \in I}
  BY <1>3 DEF Seen, I
<1> QED BY <1>3, <1>6, <1>7, <1>8 DEF n

\* The buffer of a range ends with its best hits.
LEMMA BufferedKeeps ==
  ASSUME PlanOK, searcher \in Seq(Seq(Document)), NEW t, IsTask(t), TopN \in Nat \ {0},
         plan.collector \in {"block", "scored", "materialized"}
  PROVE  /\ Buffered(t) \subseteq Visited(t)
         /\ Top(Visited(t), Precedes(Visited(t)), TopN) \subseteq Buffered(t)
<1> DEFINE len == t.to - t.from
           F(h, n) == IF n = 0 THEN EmptyBuffer
                      ELSE IF Matches(searcher[t.seg][t.from + n])
                           THEN Push(h[n - 1], Hit(t, t.from + n))
                           ELSE h[n - 1]
           Solution(h, k) == h = [n \in 0..k |-> F(h, n)]
           K == {k \in Nat : \E h : Solution(h, k)}
           buffer == CHOOSE h : Solution(h, len)
           W == Visited(t)
<1>1. len \in Nat /\ \A n \in 0..len : t.from + n \in Nat
  BY DEF IsTask
<1>2. Buffered(t) = Truncate(buffer[len]).hits
  BY DEF Buffered
<1>3. 0 \in K
  <2>1. Solution([n \in 0..0 |-> EmptyBuffer], 0)
    OBVIOUS
  <2> QED BY <2>1
<1>4. ASSUME NEW k \in Nat, k \in K PROVE k + 1 \in K
  <2>1. PICK h : Solution(h, k)
    BY <1>4
  <2> DEFINE last == IF Matches(searcher[t.seg][t.from + (k + 1)])
                     THEN Push(h[k], Hit(t, t.from + (k + 1))) ELSE h[k]
             g == [n \in 0..(k + 1) |-> IF n <= k THEN h[n] ELSE last]
  <2>2. ASSUME NEW n \in 0..(k + 1) PROVE g[n] = F(g, n)
    <3>1. CASE n = 0
      BY <2>1, <3>1
    <3>2. CASE n \in 1..k
      <4>1. n - 1 \in 0..k /\ n \in 0..k /\ n <= k /\ n - 1 <= k /\ n # 0
        BY <3>2
      <4> HIDE DEF last
      <4>2. g[n] = h[n] /\ g[n - 1] = h[n - 1]
        BY <4>1
      <4>3. h[n] = F(h, n)
        BY <2>1, <4>1
      <4> QED BY <4>1, <4>2, <4>3
    <3>3. CASE n = k + 1
      <4>1. n # 0 /\ n - 1 = k /\ ~ (n <= k) /\ k \in 0..(k + 1) /\ k <= k
        BY <3>3
      <4>2. g[n - 1] = h[k]
        BY <4>1
      <4>3. g[n] = last
        BY <4>1
      <4> QED BY <3>3, <4>1, <4>2, <4>3
    <3> QED BY <3>1, <3>2, <3>3
  <2>3. Solution(g, k + 1)
    <3> HIDE DEF F
    <3> QED BY <2>2
  <2> HIDE DEF g
  <2>4. \E e : Solution(e, k + 1)
    BY <2>3
  <2>5. k + 1 \in Nat
    OBVIOUS
  <2> QED BY <2>4, <2>5
<1>5. Nat \subseteq K
  <2> HIDE DEF K
  <2> QED BY <1>3, <1>4, NatSet
<1>6. Solution(buffer, len)
  <2> HIDE DEF F
  <2> QED BY <1>1, <1>5
<1> HIDE DEF buffer
<1>7. W \in SUBSET AnyHit /\ IsFiniteSet(W) /\ W = Seen(t, len)
  BY VisitedType
<1>8. ASSUME NEW n \in 0..len PROVE Seen(t, n) \in SUBSET W
  <2>1. Matching(t, n) \in SUBSET Matching(t, len)
    BY DEF Matching, IsTask
  <2> QED BY <1>7, <2>1 DEF Seen
<1> HIDE DEF W
<1> DEFINE G == {n \in Nat : n <= len => Keeps(buffer[n], Seen(t, n), W)}
<1>9. 0 \in G
  <2>1. buffer[0] = EmptyBuffer
    BY <1>1, <1>6
  <2>2. Seen(t, 0) = {}
    BY DEF Seen, Matching, IsTask
  <2>3. EmptyBuffer \in Buffer /\ EmptyBuffer.hits = {} /\ EmptyBuffer.threshold = NoHit
    BY DEF EmptyBuffer, Buffer
  <2>4. Keeps(EmptyBuffer, {}, W)
    BY <2>3 DEF Keeps, Top
  <2> QED BY <2>1, <2>2, <2>4
<1>10. ASSUME NEW n \in Nat, n \in G PROVE n + 1 \in G
  <2> SUFFICES ASSUME n + 1 <= len PROVE Keeps(buffer[n + 1], Seen(t, n + 1), W)
    OBVIOUS
  <2> DEFINE i == t.from + (n + 1)
             V == Seen(t, n)
             b == buffer[n]
  <2>1. Keeps(b, V, W)
    BY <1>1, <1>10
  <2>2. n \in 0..len /\ n + 1 \in 0..len /\ n + 1 # 0 /\ (n + 1) - 1 = n
    BY <1>1
  <2>3. buffer[n + 1] = IF Matches(searcher[t.seg][i]) THEN Push(b, Hit(t, i)) ELSE b
    BY <1>6, <2>2
  <2>4. V \in SUBSET W /\ Seen(t, n + 1) \in SUBSET W
    BY <1>8, <2>2
  <2>5. \A j \in Int : j \in (t.from + 1)..(t.from + (n + 1)) <=> j \in (t.from + 1)..(t.from + n) \/ j = i
    <3> DEFINE a == t.from
    <3>1. a \in Nat
      BY DEF IsTask
    <3> HIDE DEF a
    <3>2. \A j \in Int : j \in (a + 1)..(a + (n + 1)) <=> j \in (a + 1)..(a + n) \/ j = a + (n + 1)
      BY <3>1
    <3> QED BY <3>2 DEF a
  <2>6. CASE ~Matches(searcher[t.seg][i])
    <3>1. Matching(t, n + 1) = Matching(t, n)
      BY <2>5, <2>6 DEF Matching
    <3> QED BY <2>1, <2>3, <2>6, <3>1 DEF Seen
  <2>7. CASE Matches(searcher[t.seg][i])
    <3> DEFINE x == Hit(t, i)
    <3>1. Matching(t, n + 1) = Matching(t, n) \cup {i}
      <4>1. i \in Int
        BY DEF IsTask
      <4> HIDE DEF i
      <4> QED BY <2>5, <2>7, <4>1 DEF Matching
    <3>2. Seen(t, n + 1) = V \cup {x}
      BY <3>1 DEF Seen
    <3>3. x \in W
      BY <2>4, <3>2
    <3>4. x \notin V
      <4> SUFFICES ASSUME x \in V PROVE FALSE
        OBVIOUS
      <4>1. PICK j \in Matching(t, n) : x = Hit(t, j)
        BY DEF Seen
      <4>2. x.address = <<t.seg, i>> /\ Hit(t, j).address = <<t.seg, j>>
        BY DEF Hit
      <4>3. i = j
        BY <4>1, <4>2
      <4>4. j <= t.from + n /\ j \in Int
        BY DEF Matching
      <4> QED BY <4>3, <4>4 DEF IsTask
    <3> HIDE DEF V, b, x, i
    <3>5. Keeps(Push(b, x), V \cup {x}, W)
      BY <1>7, <2>1, <2>4, <3>3, <3>4, PushKeeps
    <3> QED BY <2>3, <2>7, <3>2, <3>5 DEF x
  <2> QED BY <2>6, <2>7
<1>11. Nat \subseteq G
  <2> HIDE DEF G
  <2> QED BY <1>9, <1>10, NatSet
<1>12. Keeps(buffer[len], W, W)
  <2>1. len \in G /\ len <= len
    BY <1>1, <1>11
  <2> QED BY <1>7, <2>1
<1>13. Keeps(Truncate(buffer[len]), W, W)
  BY <1>7, <1>12, TruncateKeeps
<1> QED BY <1>2, <1>13 DEF Keeps, W

LEMMA CollectedKeeps ==
  ASSUME PlanOK, searcher \in Seq(Seq(Document)), NEW t, IsTask(t), TopN \in Nat \ {0}
  PROVE  /\ Collected(t) \subseteq Visited(t)
         /\ Top(Visited(t), Precedes(Visited(t)), TopN) \subseteq Collected(t)
<1> DEFINE W == Visited(t)
<1>1. W \in SUBSET AnyHit
  BY VisitedType
<1>2. CASE plan.collector \in {"block", "scored", "materialized"}
  BY <1>2, BufferedKeeps DEF Collected
<1>3. Best(W, TopN) = Top(W, Precedes(W), TopN)
  <2> HIDE DEF W
  <2> QED BY BestIsTop
<1>4. CASE plan.collector = "native"
  <2>1. Collected(t) = {h \in W : Cardinality({g \in W : NativeBefore(g, h)}) < TopN}
    BY <1>4 DEF Collected, NativeTopK
  <2> HIDE DEF W
  <2>2. \A h \in W : {g \in W : NativeBefore(g, h)} = {g \in W : Before(g, h)}
    BY <1>1, NativeIsBefore
  <2>3. Collected(t) = Best(W, TopN)
    BY <2>1, <2>2 DEF Best
  <2> QED BY <1>3, <2>3 DEF Best, W
<1>5. CASE plan.collector \in {"score", "doc_order"}
  <2>1. Collected(t) = Best(W, TopN)
    BY <1>5 DEF Collected, DocOrderTopK
  <2> QED BY <1>3, <2>1 DEF Best
<1> QED BY <1>2, <1>4, <1>5 DEF PlanOK, Collectors

\* A task returns its best hits, with the keys of their values.
Found(t) == {GlobalHit(t.seg, i) : i \in Matching(t, t.to - t.from)}

Harvested(t, hits) ==
  /\ hits \subseteq Found(t)
  /\ Top(Found(t), Precedes(Found(t)), TopN) \subseteq hits

LEMMA HarvestKeeps ==
  ASSUME PlanOK, searcher \in Seq(Seq(Document)), NEW t, IsTask(t), TopN \in Nat \ {0}
  PROVE  Harvested(t, Harvest(t))
<1> DEFINE n == t.to - t.from
           I == Matching(t, n)
           W == Visited(t)
           U == Found(t)
           glob(h) == [h EXCEPT !.keys = GlobalKeys(searcher[h.address[1]][h.address[2]])]
           R == {p \in I \X I : Before(GlobalHit(t.seg, p[1]), GlobalHit(t.seg, p[2]))}
           f == [i \in I |-> Hit(t, i)]
           g == [i \in I |-> GlobalHit(t.seg, i)]
<1>1. n \in 0..n
  BY DEF IsTask
<1>2. IsFiniteSet(I) /\ I \in SUBSET DOMAIN searcher[t.seg]
  BY <1>1, MatchingType
<1>3. t.seg \in DOMAIN searcher /\ W = {Hit(t, i) : i \in I} /\ U = {GlobalHit(t.seg, i) : i \in I}
  BY VisitedType DEF IsTask, Seen, Found
<1>4. Harvest(t) = {glob(h) : h \in Collected(t)}
  BY DEF Harvest
<1>5. Collected(t) \subseteq W /\ Top(W, Precedes(W), TopN) \subseteq Collected(t)
  BY CollectedKeeps
<1>6. ASSUME NEW i \in I PROVE glob(Hit(t, i)) = GlobalHit(t.seg, i)
  <2> DEFINE h == Hit(t, i)
             k == GlobalKeys(searcher[t.seg][i])
  <2>1. h = [keys |-> h.keys, address |-> <<t.seg, i>>]
    BY DEF Hit
  <2> HIDE DEF h
  <2>2. h.address[1] = t.seg /\ h.address[2] = i
    BY <2>1
  <2>3. glob(h) = [h EXCEPT !.keys = k]
    BY <2>2
  <2> HIDE DEF k
  <2>4. [h EXCEPT !.keys = k] = [keys |-> k, address |-> <<t.seg, i>>]
    BY <2>1
  <2> QED BY <2>3, <2>4 DEF GlobalHit, h, k
<1> HIDE DEF I, W, U, glob
<1>7. Harvest(t) \subseteq U
  <2> SUFFICES ASSUME NEW h \in Collected(t) PROVE glob(h) \in U
    BY <1>4
  <2>1. PICK i \in I : h = Hit(t, i)
    BY <1>3, <1>5
  <2> QED BY <1>3, <1>6, <2>1
<1>8. \A i, j \in I : <<i, j>> \in R <=> Before(GlobalHit(t.seg, i), GlobalHit(t.seg, j))
  OBVIOUS
<1>9. \A i, j \in I : Before(Hit(t, i), Hit(t, j)) <=> Before(GlobalHit(t.seg, i), GlobalHit(t.seg, j))
  BY <1>2, <1>3, HitOrder
<1>10. f \in Bijection(I, W)
  <2>1. \A i, j \in I : Hit(t, i) = Hit(t, j) => i = j
    <3> SUFFICES ASSUME NEW i \in I, NEW j \in I, Hit(t, i) = Hit(t, j) PROVE i = j
      OBVIOUS
    <3>1. Hit(t, i).address = <<t.seg, i>> /\ Hit(t, j).address = <<t.seg, j>>
      BY DEF Hit
    <3>2. <<t.seg, i>> = <<t.seg, j>>
      BY <3>1
    <3> QED BY <3>2
  <2>2. f \in [I -> W]
    BY <1>3
  <2>3. \A x \in W : \E i \in I : f[i] = x
    BY <1>3
  <2> QED BY <2>1, <2>2, <2>3 DEF Bijection, Injection, IsInjective, Surjection
<1>11. g \in Bijection(I, U)
  <2>1. \A i, j \in I : GlobalHit(t.seg, i) = GlobalHit(t.seg, j) => i = j
    <3> SUFFICES ASSUME NEW i \in I, NEW j \in I, GlobalHit(t.seg, i) = GlobalHit(t.seg, j) PROVE i = j
      OBVIOUS
    <3>1. GlobalHit(t.seg, i).address = <<t.seg, i>> /\ GlobalHit(t.seg, j).address = <<t.seg, j>>
      BY DEF GlobalHit
    <3>2. <<t.seg, i>> = <<t.seg, j>>
      BY <3>1
    <3> QED BY <3>2
  <2>2. g \in [I -> U]
    BY <1>3
  <2>3. \A x \in U : \E i \in I : g[i] = x
    BY <1>3
  <2> QED BY <2>1, <2>2, <2>3 DEF Bijection, Injection, IsInjective, Surjection
<1> HIDE DEF R
<1>12. ASSUME NEW x \in Top(U, Precedes(U), TopN) PROVE x \in Harvest(t)
  <2>1. PICK i \in I : x = GlobalHit(t.seg, i)
    BY <1>3 DEF Top
  <2>2. Rank(U, Precedes(U), x) < TopN
    BY DEF Top
  <2>3. KeepsOrder(g, I, R, Precedes(U))
    <3>1. \A a \in I : g[a] \in U /\ g[a] = GlobalHit(t.seg, a)
      BY <1>3
    <3> HIDE DEF g
    <3> QED BY <1>8, <3>1 DEF Precedes, KeepsOrder
  <2>4. KeepsOrder(f, I, R, Precedes(W))
    <3>1. \A a \in I : f[a] \in W /\ f[a] = Hit(t, a)
      BY <1>3
    <3> HIDE DEF f
    <3> QED BY <1>8, <1>9, <3>1 DEF Precedes, KeepsOrder
  <2>5. g[i] = x /\ f[i] = Hit(t, i)
    BY <2>1
  <2> HIDE DEF f, g
  <2>6. Rank(U, Precedes(U), g[i]) = Rank(I, R, i)
    BY <1>2, <1>11, <2>3, RankImage
  <2>7. f[i] \in W /\ Rank(W, Precedes(W), f[i]) = Rank(I, R, i)
    BY <1>2, <1>10, <2>4, RankImage
  <2>8. f[i] \in Top(W, Precedes(W), TopN)
    BY <2>2, <2>5, <2>6, <2>7 DEF Top
  <2> QED BY <1>4, <1>5, <1>6, <2>1, <2>5, <2>8
<1> QED BY <1>7, <1>12 DEF U, Harvested

-----------------------------------------------------------------------------
(* The merge of the tasks' hits is the window of all hits.                 *)

\* The documents of the snapshot a page may return, and their hits.
Selected ==
  {a \in UNION {{<<s, i>> : i \in DOMAIN searcher[s]} : s \in DOMAIN searcher} :
     Matches(searcher[a[1]][a[2]])}

AllHits == {[keys |-> GlobalKeys(searcher[a[1]][a[2]]), address |-> a] : a \in Selected}

LEMMA SelectedType ==
  ASSUME searcher \in Seq(Seq(Document))
  PROVE  /\ IsFiniteSet(Selected)
         /\ \A a \in Selected :
              \E s \in DOMAIN searcher : \E i \in DOMAIN searcher[s] :
                a = <<s, i>> /\ Matches(searcher[s][i])
         /\ \A s \in DOMAIN searcher : \A i \in DOMAIN searcher[s] :
              Matches(searcher[s][i]) => <<s, i>> \in Selected
<1> DEFINE part(s) == {<<s, i>> : i \in DOMAIN searcher[s]}
           parts == {part(s) : s \in DOMAIN searcher}
           all == UNION parts
<1>1. /\ Len(searcher) \in Nat /\ DOMAIN searcher = 1..Len(searcher)
      /\ \A s \in DOMAIN searcher :
           Len(searcher[s]) \in Nat /\ DOMAIN searcher[s] = 1..Len(searcher[s])
  BY SegmentFacts
<1>2. IsFiniteSet(DOMAIN searcher)
  BY <1>1, FS_Interval
<1>3. ASSUME NEW s \in DOMAIN searcher PROVE IsFiniteSet(part(s))
  <2> DEFINE f == [i \in DOMAIN searcher[s] |-> <<s, i>>]
  <2>1. IsFiniteSet(DOMAIN searcher[s])
    BY <1>1, FS_Interval
  <2>2. f \in [DOMAIN searcher[s] -> part(s)]
    OBVIOUS
  <2>3. IsFiniteSet({f[i] : i \in DOMAIN searcher[s]})
    <3> HIDE DEF f
    <3> QED BY <2>1, <2>2, FiniteImage
  <2>4. part(s) = {f[i] : i \in DOMAIN searcher[s]}
    OBVIOUS
  <2> QED BY <2>3, <2>4
<1>4. IsFiniteSet(parts)
  <2> DEFINE f == [s \in DOMAIN searcher |-> part(s)]
  <2>1. f \in [DOMAIN searcher -> parts]
    OBVIOUS
  <2>2. parts = {f[s] : s \in DOMAIN searcher}
    OBVIOUS
  <2>3. IsFiniteSet({f[s] : s \in DOMAIN searcher})
    <3> HIDE DEF f, parts
    <3> QED BY <1>2, <2>1, FiniteImage
  <2> QED BY <2>2, <2>3
<1>5. IsFiniteSet(all)
  <2>1. \A t \in parts : IsFiniteSet(t)
    BY <1>3
  <2> HIDE DEF parts
  <2> QED BY <1>4, <2>1, FS_UNION
<1>6. Selected \in SUBSET all
  BY DEF Selected
<1>7. IsFiniteSet(Selected)
  BY <1>5, <1>6, FS_Subset
<1>8. ASSUME NEW a \in Selected
      PROVE  \E s \in DOMAIN searcher : \E i \in DOMAIN searcher[s] :
               a = <<s, i>> /\ Matches(searcher[s][i])
  <2>1. Matches(searcher[a[1]][a[2]]) /\ \E s \in DOMAIN searcher : a \in part(s)
    BY DEF Selected
  <2>2. PICK s \in DOMAIN searcher : a \in part(s)
    BY <2>1
  <2>3. PICK i \in DOMAIN searcher[s] : a = <<s, i>>
    BY <2>2
  <2>4. a[1] = s /\ a[2] = i
    BY <2>3
  <2> QED BY <2>1, <2>3, <2>4
<1>9. ASSUME NEW s \in DOMAIN searcher, NEW i \in DOMAIN searcher[s], Matches(searcher[s][i])
      PROVE  <<s, i>> \in Selected
  <2> DEFINE a == <<s, i>>
  <2>1. a[1] = s /\ a[2] = i /\ a \in part(s)
    OBVIOUS
  <2> HIDE DEF a
  <2>2. a \in UNION {{<<u, j>> : j \in DOMAIN searcher[u]} : u \in DOMAIN searcher}
    BY <2>1
  <2>3. a \in Selected
    BY <1>9, <2>1, <2>2 DEF Selected
  <2> QED BY <2>3 DEF a
<1> QED BY <1>7, <1>8, <1>9

LEMMA AllHitsType ==
  ASSUME PlanOK, searcher \in Seq(Seq(Document))
  PROVE  /\ IsFiniteSet(AllHits) /\ AllHits \in SUBSET AnyHit
         /\ \A h \in AllHits : \E s \in DOMAIN searcher : \E i \in DOMAIN searcher[s] :
              h = GlobalHit(s, i) /\ Matches(searcher[s][i])
         /\ \A s \in DOMAIN searcher : \A i \in DOMAIN searcher[s] :
              Matches(searcher[s][i]) => GlobalHit(s, i) \in AllHits
<1> DEFINE hit(a) == [keys |-> GlobalKeys(searcher[a[1]][a[2]]), address |-> a]
           f == [a \in Selected |-> hit(a)]
<1>1. AllHits = {hit(a) : a \in Selected}
  BY DEF AllHits
<1>2. \A s, i : hit(<<s, i>>) = GlobalHit(s, i)
  BY DEF GlobalHit
<1> HIDE DEF hit
<1>3. f \in [Selected -> AllHits]
  BY <1>1
<1>4. AllHits = {f[a] : a \in Selected}
  BY <1>1
<1>5. IsFiniteSet(AllHits)
  <2>1. IsFiniteSet(Selected)
    BY SelectedType
  <2> HIDE DEF f
  <2>2. IsFiniteSet({f[a] : a \in Selected})
    BY <1>3, <2>1, FiniteImage
  <2> QED BY <1>4, <2>2
<1>6. ASSUME NEW h \in AllHits
      PROVE  \E s \in DOMAIN searcher : \E i \in DOMAIN searcher[s] :
              h = GlobalHit(s, i) /\ Matches(searcher[s][i])
  <2>1. PICK a \in Selected : h = hit(a)
    BY <1>1
  <2>2. PICK s \in DOMAIN searcher : \E i \in DOMAIN searcher[s] :
          a = <<s, i>> /\ Matches(searcher[s][i])
    BY SelectedType
  <2>3. PICK i \in DOMAIN searcher[s] : a = <<s, i>> /\ Matches(searcher[s][i])
    BY <2>2
  <2> QED BY <1>2, <2>1, <2>3
<1>7. AllHits \in SUBSET AnyHit
  BY <1>6, GlobalHitType
<1>8. ASSUME NEW s \in DOMAIN searcher, NEW i \in DOMAIN searcher[s], Matches(searcher[s][i])
      PROVE  GlobalHit(s, i) \in AllHits
  <2>1. <<s, i>> \in Selected
    BY <1>8, SelectedType
  <2> QED BY <1>1, <1>2, <2>1
<1> QED BY <1>5, <1>6, <1>7, <1>8

\* The tasks of a page find all hits between them.
LEMMA TasksFindAll ==
  ASSUME PlanOK, searcher \in Seq(Seq(Document)), Planned(searcher, tasks)
  PROVE  /\ \A t \in tasks : IsTask(t) /\ Found(t) \in SUBSET AllHits
         /\ \A h \in AllHits : \E t \in tasks : h \in Found(t)
<1>1. \A t \in tasks : IsTask(t)
  BY DEF Planned, IsTask
<1>2. ASSUME NEW t \in tasks, NEW h \in Found(t) PROVE h \in AllHits
  <2>1. PICK i \in Matching(t, t.to - t.from) : h = GlobalHit(t.seg, i)
    BY DEF Found
  <2>2. t.to - t.from \in 0..(t.to - t.from) /\ t.seg \in DOMAIN searcher
    BY <1>1 DEF IsTask
  <2>3. i \in DOMAIN searcher[t.seg]
    BY <1>1, <2>2, MatchingType
  <2>4. Matches(searcher[t.seg][i])
    BY DEF Matching
  <2> QED BY <2>1, <2>2, <2>3, <2>4, AllHitsType
<1>3. ASSUME NEW h \in AllHits PROVE \E t \in tasks : h \in Found(t)
  <2>0. PICK s \in DOMAIN searcher : \E i \in DOMAIN searcher[s] :
          h = GlobalHit(s, i) /\ Matches(searcher[s][i])
    BY AllHitsType
  <2>1. PICK i \in DOMAIN searcher[s] : h = GlobalHit(s, i) /\ Matches(searcher[s][i])
    BY <2>0
  <2>2. PICK r \in tasks : {t \in tasks : t.seg = s /\ t.from < i /\ i <= t.to} = {r}
    BY DEF Planned
  <2>3. r.seg = s /\ r.from < i /\ i <= r.to
    BY <2>2
  <2>4. i \in Nat
    BY SegmentFacts
  <2>5. i \in Matching(r, r.to - r.from)
    <3>1. r.from \in Nat /\ r.to \in Nat
      BY <1>1 DEF IsTask
    <3>2. r.from + (r.to - r.from) = r.to /\ i \in (r.from + 1)..r.to
      BY <2>3, <2>4, <3>1
    <3> QED BY <2>1, <2>3, <3>2 DEF Matching
  <2> QED BY <2>1, <2>3, <2>5 DEF Found
<1> QED BY <1>1, <1>2, <1>3

\* A cut of a sequence, element by element.
LEMMA Slice ==
  ASSUME NEW T, NEW s \in Seq(T), NEW o \in Nat, NEW m \in Nat, m <= Len(s),
         NEW w, w = SubSeq(s, o + 1, m)
  PROVE  /\ w \in Seq(T)
         /\ Len(w) = IF o <= m THEN m - o ELSE 0
         /\ \A i \in 1..Len(w) : w[i] = s[o + i]
<1>1. Len(s) \in Nat /\ \A i \in 1..Len(s) : s[i] \in T
  BY LenProperties, ElementOfSeq
<1>2. \A i \in (o + 1)..m : s[i] \in T
  BY <1>1
<1>3. o + 1 \in Int /\ m \in Int
  OBVIOUS
<1>4. /\ w \in Seq(T)
      /\ Len(w) = IF o + 1 <= m THEN m - (o + 1) + 1 ELSE 0
      /\ \A i \in 1..(m - (o + 1) + 1) : w[i] = s[o + 1 + i - 1]
  BY <1>2, <1>3, SubSeqProperties
<1>5. Len(w) = IF o <= m THEN m - o ELSE 0
  BY <1>4
<1>6. ASSUME NEW i \in 1..Len(w) PROVE w[i] = s[o + i]
  <2>1. i \in 1..(m - (o + 1) + 1) /\ o + 1 + i - 1 = o + i
    BY <1>5
  <2> QED BY <1>4, <2>1
<1> QED BY <1>4, <1>5, <1>6

\* Two sequences that agree up to a place have the same cuts up to it.
LEMMA SliceEqual ==
  ASSUME NEW T, NEW s \in Seq(T), NEW r \in Seq(T), NEW o \in Nat, NEW m \in Nat,
         m <= Len(s), m <= Len(r), \A k \in 1..m : s[k] = r[k]
  PROVE  SubSeq(s, o + 1, m) = SubSeq(r, o + 1, m)
<1> DEFINE v == SubSeq(s, o + 1, m)
           w == SubSeq(r, o + 1, m)
<1>1. /\ v \in Seq(T) /\ Len(v) = IF o <= m THEN m - o ELSE 0
      /\ \A i \in 1..Len(v) : v[i] = s[o + i]
  BY Slice
<1>2. /\ w \in Seq(T) /\ Len(w) = IF o <= m THEN m - o ELSE 0
      /\ \A i \in 1..Len(w) : w[i] = r[o + i]
  BY Slice
<1> HIDE DEF v, w
<1>3. ASSUME NEW i \in 1..Len(v) PROVE v[i] = w[i]
  <2>1. o + i \in 1..m /\ i \in 1..Len(w)
    BY <1>1, <1>2
  <2> QED BY <1>1, <1>2, <2>1
<1>4. v = w
  BY <1>1, <1>2, <1>3, SeqEqual
<1> QED BY <1>4 DEF v, w

LEMMA Prefix ==
  ASSUME NEW T, NEW s \in Seq(T), NEW k \in Nat, k <= Len(s), NEW w, w = SubSeq(s, 1, k)
  PROVE  w \in Seq(T) /\ Len(w) = k /\ \A i \in 1..k : w[i] = s[i]
<1> DEFINE zero == 0
<1>1. zero \in Nat /\ zero + 1 = 1 /\ zero <= k /\ k - zero = k /\ \A i \in 1..k : zero + i = i
  OBVIOUS
<1> HIDE DEF zero
<1>2. w = SubSeq(s, zero + 1, k)
  BY <1>1
<1>3. /\ w \in Seq(T) /\ Len(w) = (IF zero <= k THEN k - zero ELSE 0)
      /\ \A i \in 1..Len(w) : w[i] = s[zero + i]
  BY <1>1, <1>2, Slice
<1> QED BY <1>1, <1>3

LEMMA PageSize ==
  ASSUME NEW all \in Nat, NEW o \in Nat, NEW limit \in Nat, NEW extra \in Nat, NEW m, NEW q,
         NEW n, NEW k, NEW size,
         m = (IF limit + extra + o <= all THEN limit + extra + o ELSE all),
         q = (IF o + limit <= all THEN o + limit ELSE all),
         n = (IF o <= m THEN m - o ELSE 0),
         k = (IF limit <= n THEN limit ELSE n),
         size = (IF o <= q THEN q - o ELSE 0)
  PROVE  k = size
OBVIOUS

\* The rows of a sequence between a place and the end of a page.
Window(s, o, n) == SubSeq(s, o + 1, IF n <= Len(s) THEN n ELSE Len(s))

Page(s, limit) == SubSeq(s, 1, Min({limit, Len(s)}))

LEMMA WindowElements ==
  ASSUME NEW T, NEW s \in Seq(T), NEW o \in Nat, NEW n \in Nat
  PROVE  /\ Window(s, o, n) \in Seq(T)
         /\ \A m : m = (IF n <= Len(s) THEN n ELSE Len(s)) =>
              Len(Window(s, o, n)) = (IF o <= m THEN m - o ELSE 0)
         /\ \A i \in 1..Len(Window(s, o, n)) : Window(s, o, n)[i] = s[o + i]
<1> DEFINE m == IF n <= Len(s) THEN n ELSE Len(s)
           w == SubSeq(s, o + 1, m)
<1>1. Window(s, o, n) = w
  BY DEF Window
<1>2. Len(s) \in Nat
  BY LenProperties
<1>3. m \in Nat /\ m <= Len(s)
  BY <1>2
<1> HIDE DEF m
<1>4. /\ w \in Seq(T) /\ Len(w) = (IF o <= m THEN m - o ELSE 0)
      /\ \A i \in 1..Len(w) : w[i] = s[o + i]
  BY <1>3, Slice
<1> HIDE DEF w
<1> QED BY <1>1, <1>4 DEF m

LEMMA PageElements ==
  ASSUME NEW T, NEW s \in Seq(T), NEW limit \in Nat
  PROVE  /\ Page(s, limit) \in Seq(T)
         /\ Len(Page(s, limit)) = (IF limit <= Len(s) THEN limit ELSE Len(s))
         /\ \A i \in 1..Len(Page(s, limit)) : Page(s, limit)[i] = s[i]
<1> DEFINE k == Min({limit, Len(s)})
           w == SubSeq(s, 1, k)
<1>1. Page(s, limit) = w
  BY DEF Page
<1>2. Len(s) \in Nat
  BY LenProperties
<1>3. k = (IF limit <= Len(s) THEN limit ELSE Len(s))
  BY <1>2, MinOfTwo
<1> HIDE DEF k
<1>4. k \in Nat /\ k <= Len(s)
  BY <1>2, <1>3
<1>5. w \in Seq(T) /\ Len(w) = k /\ \A i \in 1..k : w[i] = s[i]
  BY <1>4, Prefix
<1> HIDE DEF w
<1> QED BY <1>1, <1>3, <1>5

\* The row taken in advance for the cursor does not change the page.
LEMMA PageOfWindow ==
  ASSUME NEW T, NEW s \in Seq(T), NEW o \in Nat, NEW limit \in Nat, NEW extra \in Nat
  PROVE  Page(Window(s, o, limit + extra + o), limit) = Window(s, o, o + limit)
<1> DEFINE source == Window(s, o, limit + extra + o)
           rows == Page(source, limit)
           w == Window(s, o, o + limit)
           m == IF limit + extra + o <= Len(s) THEN limit + extra + o ELSE Len(s)
           q == IF o + limit <= Len(s) THEN o + limit ELSE Len(s)
<1>1. Len(s) \in Nat
  BY LenProperties
<1>2. limit + extra + o \in Nat /\ o + limit \in Nat
  OBVIOUS
<1>3. /\ source \in Seq(T) /\ Len(source) = (IF o <= m THEN m - o ELSE 0)
      /\ \A i \in 1..Len(source) : source[i] = s[o + i]
  BY <1>2, WindowElements, ZenonT(60)
<1>4. /\ w \in Seq(T) /\ Len(w) = (IF o <= q THEN q - o ELSE 0)
      /\ \A i \in 1..Len(w) : w[i] = s[o + i]
  BY <1>2, WindowElements, ZenonT(60)
<1> HIDE DEF source, w
<1>5. /\ rows \in Seq(T) /\ Len(rows) = (IF limit <= Len(source) THEN limit ELSE Len(source))
      /\ \A i \in 1..Len(rows) : rows[i] = source[i]
  BY <1>3, PageElements
<1>6. Len(source) \in Nat
  BY <1>3, LenProperties
<1> HIDE DEF rows
<1>7. Len(rows) = Len(w)
  BY <1>1, <1>3, <1>4, <1>5, PageSize
<1>8. ASSUME NEW i \in 1..Len(rows) PROVE rows[i] = w[i]
  <2>1. i \in 1..Len(source)
    BY <1>5, <1>6
  <2> QED BY <1>3, <1>4, <1>5, <1>7, <2>1
<1>9. rows = w
  BY <1>4, <1>5, <1>7, <1>8, SeqEqual
<1> QED BY <1>9 DEF rows, w, source

\* Sorting a part needs the order of the part only.
LEMMA SortedOfPart ==
  ASSUME PlanOK, NEW S \in SUBSET AnyHit, IsFiniteSet(S), NEW B \in SUBSET S
  PROVE  Sorted(B, Precedes(B)) = Sorted(B, Precedes(S))
<1> DEFINE p == Sorted(B, Precedes(B))
           r == Sorted(B, Precedes(S))
           n == Cardinality(B)
<1>1. IsFiniteSet(B) /\ n \in Nat
  BY FS_Subset, FS_CardinalityType
<1>2. Total(B, Precedes(B)) /\ Total(B, Precedes(S))
  BY PrecedesTotal, TotalSubset
<1>3. ASSUME NEW x \in B PROVE Rank(B, Precedes(B), x) = Rank(B, Precedes(S), x)
  <2>1. Below(B, Precedes(B), x) = Below(B, Precedes(S), x)
    BY DEF Below, Precedes
  <2> QED BY <2>1 DEF Rank
<1>4. /\ p \in Seq(B) /\ Len(p) = n
      /\ \A k \in 1..n : p[k] \in B /\ Rank(B, Precedes(B), p[k]) = k - 1
  BY <1>1, <1>2, SortedProperties
<1>5. /\ r \in Seq(B) /\ Len(r) = n
      /\ \A k \in 1..n : r[k] \in B /\ Rank(B, Precedes(S), r[k]) = k - 1
  BY <1>1, <1>2, SortedProperties
<1> HIDE DEF p, r
<1>6. ASSUME NEW k \in 1..n PROVE p[k] = r[k]
  <2>1. p[k] \in B /\ r[k] \in B
    BY <1>4, <1>5
  <2>2. Rank(B, Precedes(B), p[k]) = Rank(B, Precedes(B), r[k])
    BY <1>3, <1>4, <1>5, <2>1
  <2> QED BY <1>1, <1>2, <2>1, <2>2, RankOrders
<1>7. p = r
  BY <1>4, <1>5, <1>6, SeqEqual
<1> QED BY <1>7 DEF p, r

\* The union of the tasks' hits holds the best hits of all.
LEMMA BestOfFruits ==
  ASSUME PlanOK, searcher \in Seq(Seq(Document)), Planned(searcher, tasks),
         TopN \in Nat \ {0}, DOMAIN fruits = tasks, \A t \in tasks : Harvested(t, fruits[t])
  PROVE  Best(UNION {fruits[t] : t \in DOMAIN fruits}, TopN)
           = Top(AllHits, Precedes(AllHits), TopN)
<1> DEFINE S == AllHits
           R == Precedes(S)
           U == UNION {fruits[t] : t \in DOMAIN fruits}
<1>1. IsFiniteSet(S) /\ S \in SUBSET AnyHit
  BY AllHitsType
<1>2. Total(S, R)
  BY <1>1, PrecedesTotal
<1>3. /\ \A t \in tasks : IsTask(t) /\ Found(t) \in SUBSET S
      /\ \A h \in S : \E t \in tasks : h \in Found(t)
  BY TasksFindAll
<1>4. \A t \in tasks : /\ fruits[t] \subseteq Found(t)
                       /\ Top(Found(t), Precedes(Found(t)), TopN) \subseteq fruits[t]
  BY DEF Harvested
<1>5. U \in SUBSET S
  BY <1>3, <1>4
<1>6. Top(S, R, TopN) \subseteq U
  <2> SUFFICES ASSUME NEW x \in Top(S, R, TopN) PROVE x \in U
    OBVIOUS
  <2>1. x \in S
    BY DEF Top
  <2>2. PICK t \in tasks : x \in Found(t)
    BY <1>3, <2>1
  <2> DEFINE F == Found(t)
  <2>3. F \in SUBSET S
    BY <1>3
  <2> HIDE DEF S, F
  <2>4. Top(S, R, TopN) \cap F \subseteq Top(F, R, TopN)
    BY <1>1, <2>3, TopOfPart
  <2>5. Top(F, R, TopN) = Best(F, TopN) /\ Top(F, Precedes(F), TopN) = Best(F, TopN)
    BY <2>3, BestIsTop
  <2>6. x \in Top(F, Precedes(F), TopN)
    BY <2>2, <2>4, <2>5 DEF F
  <2>7. x \in fruits[t]
    BY <1>4, <2>6 DEF F
  <2> QED BY <2>7
<1> HIDE DEF U, S
<1>7. Best(U, TopN) = Top(U, R, TopN)
  BY <1>5, BestIsTop
<1>8. Top(U, R, TopN) = Top(S, R, TopN)
  BY <1>1, <1>2, <1>5, <1>6, TopOfSubset
<1> QED BY <1>7, <1>8 DEF U, S

Row == [pk : Keys, val : Cell]

\* The sorted rows of a page's hits, before the window is cut.
LEMMA RowsOfHits ==
  ASSUME PlanOK, searcher \in Seq(Seq(Document)), NEW S \in SUBSET AllHits,
         NEW q, q = Sorted(S, Precedes(AllHits)),
         NEW rows, rows = [i \in DOMAIN q |-> LoadRow(q[i].address)]
  PROVE  /\ rows \in Seq(Row) /\ Len(rows) = Cardinality(S) /\ Cardinality(S) \in Nat
         /\ \A i \in 1..Cardinality(S) : rows[i] = LoadRow(q[i].address)
<1>1. IsFiniteSet(AllHits) /\ AllHits \in SUBSET AnyHit
  BY AllHitsType
<1>2. IsFiniteSet(S) /\ Cardinality(S) \in Nat
  BY <1>1, FS_Subset, FS_CardinalityType
<1>3. Total(S, Precedes(AllHits))
  BY <1>1, PrecedesTotal, TotalSubset
<1>4. DOMAIN q = 1..Cardinality(S) /\ \A k \in 1..Cardinality(S) : q[k] \in S
  BY <1>2, <1>3, SortedProperties
<1>5. ASSUME NEW h \in AllHits PROVE LoadRow(h.address) \in Row
  <2>1. PICK s \in DOMAIN searcher : \E i \in DOMAIN searcher[s] :
          h = GlobalHit(s, i) /\ Matches(searcher[s][i])
    BY AllHitsType
  <2>2. PICK i \in DOMAIN searcher[s] : h = GlobalHit(s, i)
    BY <2>1
  <2>3. h.address = <<s, i>>
    BY <2>2, GlobalHitType
  <2>4. searcher[s][i] \in Document
    BY SegmentFacts
  <2>5. LoadRow(<<s, i>>) = [pk |-> searcher[s][i].pk, val |-> searcher[s][i].val]
    BY DEF LoadRow
  <2> QED BY <2>3, <2>4, <2>5 DEF Document, Row
<1>6. rows \in [1..Cardinality(S) -> Row]
  BY <1>4, <1>5
<1>7. rows \in Seq(Row) /\ Len(rows) = Cardinality(S)
  BY <1>2, <1>6, SeqOfFunction
<1> QED BY <1>2, <1>4, <1>7

\* merge_fruits cuts the window out of all hits sorted in one piece.
LEMMA MergedIsWindow ==
  ASSUME PlanOK, searcher \in Seq(Seq(Document)), Planned(searcher, tasks),
         TopN \in Nat \ {0}, Offset \in Nat,
         DOMAIN fruits = tasks, \A t \in tasks : Harvested(t, fruits[t])
  PROVE  /\ Reference \in Seq(Row)
         /\ Merged = Window(Reference, Offset, TopN)
<1> DEFINE S == AllHits
           R == Precedes(AllHits)
           B == Top(S, R, TopN)
           p == Sorted(S, R)
           q == Sorted(B, R)
           all == [i \in DOMAIN p |-> LoadRow(p[i].address)]
           rows == [i \in DOMAIN q |-> LoadRow(q[i].address)]
           n == IF TopN <= Cardinality(S) THEN TopN ELSE Cardinality(S)
<1>1. Reference = all
  BY DEF Reference, AllHits, Selected
<1>2. Best(UNION {fruits[t] : t \in DOMAIN fruits}, TopN) = B
  BY BestOfFruits
<1>3. IsFiniteSet(S) /\ S \in SUBSET AnyHit /\ Total(S, R)
  BY AllHitsType, PrecedesTotal
<1>4. B \in SUBSET S
  BY DEF Top
<1>5. Sorted(B, Precedes(B)) = q
  <2> HIDE DEF S, B
  <2>1. Sorted(B, Precedes(B)) = Sorted(B, Precedes(S))
    BY <1>3, <1>4, SortedOfPart
  <2> QED BY <2>1 DEF S
<1>6. Merged = SubSeq(rows, Offset + 1, Len(rows))
  <2> HIDE DEF B
  <2> QED BY <1>2, <1>5 DEF Merged
<1>7. /\ all \in Seq(Row) /\ Len(all) = Cardinality(S) /\ Cardinality(S) \in Nat
      /\ \A i \in 1..Cardinality(S) : all[i] = LoadRow(p[i].address)
  BY RowsOfHits
<1>8. /\ rows \in Seq(Row) /\ Len(rows) = Cardinality(B) /\ Cardinality(B) \in Nat
      /\ \A i \in 1..Cardinality(B) : rows[i] = LoadRow(q[i].address)
  BY <1>4, RowsOfHits
<1>9. Len(q) = n /\ \A k \in 1..Len(q) : k \in 1..Cardinality(S) /\ q[k] = p[k]
  <2> HIDE DEF S
  <2> QED BY <1>3, SortedTop
<1>10. Len(q) = Cardinality(B)
  <2>1. IsFiniteSet(B) /\ Total(B, R)
    BY <1>3, <1>4, FS_Subset, TotalSubset
  <2> HIDE DEF B
  <2> QED BY <2>1, SortedProperties
<1> HIDE DEF S, R, B, p, q, all, rows
<1>11. n \in Nat /\ n <= Len(all) /\ Len(rows) = n /\ n <= Len(rows)
  BY <1>7, <1>8, <1>9, <1>10
<1>12. \A k \in 1..n : rows[k] = all[k]
  BY <1>7, <1>8, <1>9, <1>10
<1> HIDE DEF n
<1>13. SubSeq(rows, Offset + 1, n) = SubSeq(all, Offset + 1, n)
  BY <1>7, <1>8, <1>11, <1>12, SliceEqual
<1> QED BY <1>1, <1>6, <1>7, <1>11, <1>13 DEF n, Window

-----------------------------------------------------------------------------
(* Every page is the window of its snapshot.                               *)

Pages ==
  /\ seen \in Seq(Row) /\ page \in Seq(Row) /\ Len(page) <= Len(seen)
  /\ phase = "collecting" =>
       DOMAIN fruits \subseteq tasks /\ \A t \in DOMAIN fruits : Harvested(t, fruits[t])
  /\ PageIsWindow

LEMMA TopNType ==
  ASSUME PlanOK, seen \in Seq(Row)
  PROVE  /\ Offset = (IF plan.cursor THEN 0 ELSE Len(seen)) /\ Offset \in Nat
         /\ TopN = plan.limit + (IF plan.cursor THEN 1 ELSE 0) + Offset /\ TopN \in Nat \ {0}
<1>1. Len(seen) \in Nat /\ plan.limit \in Nat \ {0}
  BY LenProperties DEF PlanOK
<1>2. Offset = (IF plan.cursor THEN 0 ELSE Len(seen)) /\ Offset \in Nat
  BY <1>1 DEF Offset
<1> QED BY <1>1, <1>2 DEF TopN

\* What a page shows depends on the plan, the snapshot and the boundary only.
LEMMA ReferenceStays ==
  ASSUME UNCHANGED <<plan, searcher, after>>
  PROVE  Reference' = Reference
BY DEF Reference, Sorted, Precedes, Before, Less, AddressBefore, Matches, AfterCursor, Value,
       Score, GlobalKeys, LoadRow

LEMMA HarvestedStays ==
  ASSUME UNCHANGED <<plan, searcher, after, seen>>, NEW t, NEW hits
  PROVE  Harvested(t, hits)' <=> Harvested(t, hits)
<1>1. TopN' = TopN
  BY DEF TopN, Offset
<1>2. \A a, b : Before(a, b)' <=> Before(a, b)
  BY DEF Before, Less, AddressBefore
<1>3. Found(t)' = Found(t)
  BY DEF Found, Matching, GlobalHit, Matches, AfterCursor, Value, Score, Less, GlobalKeys
<1>4. (Precedes(Found(t)))' = Precedes(Found(t))
  BY <1>2, <1>3 DEF Precedes
<1>5. (Top(Found(t), Precedes(Found(t)), TopN))' = Top(Found(t), Precedes(Found(t)), TopN)
  BY <1>1, <1>3, <1>4 DEF Top, Rank, Below
<1> QED BY <1>3, <1>5 DEF Harvested

LEMMA WindowIs ==
  ASSUME NEW T, NEW s \in Seq(T), NEW o \in Nat, NEW limit \in Nat
  PROVE  /\ Window(s, o, o + limit) = SubSeq(s, o + 1, Min({o + limit, Len(s)}))
         /\ o = 0 => Window(s, o, o + limit) = SubSeq(s, 1, Min({limit, Len(s)}))
<1>1. Len(s) \in Nat /\ o + limit \in Int
  BY LenProperties
<1>2. Min({o + limit, Len(s)}) = IF o + limit <= Len(s) THEN o + limit ELSE Len(s)
  BY <1>1, MinOfTwo
<1>3. Window(s, o, o + limit) = SubSeq(s, o + 1, Min({o + limit, Len(s)}))
  BY <1>2 DEF Window
<1>4. o = 0 => o + 1 = 1 /\ o + limit = limit
  OBVIOUS
<1> QED BY <1>3, <1>4

\* What Finish makes the page.
LEMMA FinishPage ==
  ASSUME Layout, Pages, Finish
  PROVE  /\ Reference \in Seq(Row)
         /\ Offset \in Nat
         /\ page' = Window(Reference, Offset, Offset + plan.limit) /\ page' \in Seq(Row)
         /\ seen' = seen \o page'
<1>1. PlanOK /\ searcher \in Seq(Seq(Document)) /\ Planned(searcher, tasks)
  BY DEF Layout, Finish
<1>2. seen \in Seq(Row)
  BY DEF Pages
<1>3. /\ Offset \in Nat
      /\ TopN = plan.limit + (IF plan.cursor THEN 1 ELSE 0) + Offset /\ TopN \in Nat \ {0}
  BY <1>1, <1>2, TopNType
<1>4. DOMAIN fruits = tasks /\ \A t \in tasks : Harvested(t, fruits[t])
  BY DEF Pages, Finish
<1>5. Reference \in Seq(Row) /\ Merged = Window(Reference, Offset, TopN)
  BY <1>1, <1>3, <1>4, MergedIsWindow
<1>6. page' = Page(Merged, plan.limit) /\ seen' = seen \o page'
  BY DEF Finish, Page
<1> DEFINE extra == IF plan.cursor THEN 1 ELSE 0
<1>7. extra \in Nat /\ plan.limit \in Nat /\ TopN = plan.limit + extra + Offset
  BY <1>1, <1>3 DEF PlanOK
<1> HIDE DEF extra
<1>8. page' = Window(Reference, Offset, Offset + plan.limit)
  <2> DEFINE s == Reference
             o == Offset
             limit == plan.limit
  <2>1. s \in Seq(Row) /\ o \in Nat /\ limit \in Nat /\ extra \in Nat
    BY <1>3, <1>5, <1>7
  <2>2. Merged = Window(s, o, limit + extra + o)
    BY <1>5, <1>7
  <2> HIDE DEF s, o, limit
  <2>3. Page(Window(s, o, limit + extra + o), limit) = Window(s, o, o + limit)
    BY <2>1, PageOfWindow
  <2> QED BY <1>6, <2>2, <2>3 DEF s, o, limit
<1>9. page' \in Seq(Row)
  <2>1. Offset + plan.limit \in Nat
    BY <1>3, <1>7
  <2> QED BY <1>3, <1>5, <1>8, <2>1, WindowElements
<1> QED BY <1>3, <1>5, <1>6, <1>8, <1>9

LEMMA InitialPages == Init => Pages
<1> SUFFICES ASSUME Init PROVE Pages
  OBVIOUS
<1>1. seen = <<>> /\ page = <<>> /\ phase = "idle"
  BY DEF Init
<1>2. seen \in Seq(Row) /\ page \in Seq(Row) /\ Len(page) <= Len(seen)
  BY <1>1, EmptySeq
<1> QED BY <1>1, <1>2 DEF Pages, PageIsWindow

LEMMA PagesStep == Layout /\ Pages /\ [Next]_vars => Pages'
<1> SUFFICES ASSUME Layout, Pages, [Next]_vars PROVE Pages'
  OBVIOUS
<1>1. plan' = plan
  BY PlanStays
<1>2. Row' = Row
  BY <1>1 DEF Row, Cell
<1>3. PlanOK /\ searcher \in Seq(Seq(Document)) /\ seen \in Seq(Row) /\ page \in Seq(Row)
      /\ Len(page) <= Len(seen)
  BY DEF Layout, Pages
<1>4. TopN \in Nat \ {0}
  BY <1>3, TopNType
<1>5. CASE UNCHANGED <<phase, searcher, tasks, fruits, after, page, seen>>
  <2>1. Reference' = Reference
    BY <1>1, <1>5, ReferenceStays
  <2>2. PageIsWindow'
    BY <1>1, <1>5, <2>1 DEF Pages, PageIsWindow
  <2>3. \A t, hits : Harvested(t, hits)' <=> Harvested(t, hits)
    BY <1>1, <1>5, HarvestedStays
  <2>4. phase' = "collecting" =>
          DOMAIN fruits' \subseteq tasks' /\ \A t \in DOMAIN fruits' : Harvested(t, fruits[t])'
    BY <1>5, <2>3 DEF Pages
  <2>5. seen' \in Seq(Row') /\ page' \in Seq(Row') /\ Len(page') <= Len(seen')
    BY <1>2, <1>3, <1>5
  <2> QED BY <2>2, <2>4, <2>5 DEF Pages
<1>6. CASE Start
  <2>1. phase' = "collecting" /\ fruits' = <<>> /\ page' = page /\ seen' = seen
    BY <1>6 DEF Start
  <2>2. DOMAIN fruits' = {}
    BY <2>1
  <2> QED BY <1>2, <1>3, <2>1, <2>2 DEF Pages, PageIsWindow
<1>7. ASSUME NEW t \in tasks, Collect(t) PROVE Pages'
  <2>1. /\ phase = "collecting" /\ UNCHANGED <<phase, searcher, tasks, after, page, seen>>
        /\ fruits' = [u \in DOMAIN fruits \cup {t} |-> IF u = t THEN Harvest(t) ELSE fruits[u]]
    BY <1>7 DEF Collect
  <2>2. IsTask(t)
    BY <2>1 DEF Layout, Planned, IsTask
  <2>3. Harvested(t, Harvest(t))
    BY <1>3, <1>4, <2>2, HarvestKeeps
  <2>4. DOMAIN fruits' = DOMAIN fruits \cup {t} /\ DOMAIN fruits \subseteq tasks
    BY <2>1 DEF Pages
  <2>5. \A u \in DOMAIN fruits' : Harvested(u, fruits'[u])
    BY <2>1, <2>3, <2>4 DEF Pages
  <2>6. \A u, hits : Harvested(u, hits)' <=> Harvested(u, hits)
    BY <1>1, <2>1, HarvestedStays
  <2>7. \A u \in DOMAIN fruits' : Harvested(u, fruits[u])'
    BY <2>5, <2>6
  <2>8. PageIsWindow'
    BY <2>1 DEF PageIsWindow
  <2> QED BY <1>2, <1>3, <2>1, <2>4, <2>7, <2>8 DEF Pages
<1>8. CASE Finish
  <2>1. /\ Reference \in Seq(Row) /\ Offset \in Nat
        /\ page' = Window(Reference, Offset, Offset + plan.limit) /\ page' \in Seq(Row)
        /\ seen' = seen \o page'
    BY <1>8, FinishPage
  <2>2. seen' \in Seq(Row) /\ Len(seen') = Len(seen) + Len(page')
    BY <1>3, <2>1, ConcatProperties
  <2>3. Len(page') \in Nat /\ Len(seen) \in Nat
    BY <1>3, <2>1, LenProperties
  <2>4. Len(page') <= Len(seen') /\ Len(seen') - Len(page') = Len(seen)
    BY <2>2, <2>3
  <2>5. phase' # "collecting" /\ UNCHANGED <<searcher, after>>
    BY <1>8 DEF Finish
  <2>6. Reference' = Reference
    BY <1>1, <2>5, ReferenceStays
  <2>7. plan.limit \in Nat
    BY <1>3 DEF PlanOK
  <2>8. Offset = (IF plan.cursor THEN 0 ELSE Len(seen))
    BY <1>3, TopNType
  <2>9. plan.cursor => page' = SubSeq(Reference, 1, Min({plan.limit, Len(Reference)}))
    BY <2>1, <2>7, <2>8, WindowIs
  <2>10. ~plan.cursor =>
           page' = SubSeq(Reference, Len(seen) + 1, Min({Len(seen) + plan.limit, Len(Reference)}))
    BY <2>1, <2>7, <2>8, WindowIs
  <2>11. PageIsWindow'
    BY <1>1, <2>4, <2>6, <2>9, <2>10 DEF PageIsWindow
  <2> QED BY <1>2, <2>1, <2>2, <2>4, <2>5, <2>11 DEF Pages
<1>9. CASE Again
  <2>1. seen' = <<>> /\ page' = <<>> /\ phase' = "idle"
    BY <1>9 DEF Again
  <2>2. seen' \in Seq(Row') /\ page' \in Seq(Row') /\ Len(page') <= Len(seen')
    BY <2>1, EmptySeq
  <2> QED BY <2>1, <2>2 DEF Pages, PageIsWindow
<1>10. ASSUME NEW k \in Keys, NEW v \in Values \cup {Null}, Upsert(k, v) PROVE Pages'
  BY <1>5, <1>10 DEF Upsert, Written
<1>11. ASSUME NEW k \in Keys, Delete(k) PROVE Pages'
  BY <1>5, <1>11 DEF Delete, Written
<1>12. ASSUME NEW n \in Targets, Optimize(n) PROVE Pages'
  BY <1>5, <1>12 DEF Optimize
<1>13. CASE UNCHANGED vars
  BY <1>5, <1>13 DEF vars
<1> QED BY <1>6, <1>7, <1>8, <1>9, <1>10, <1>11, <1>12, <1>13 DEF Next

LEMMA PagesInvariant == Spec => []Pages
BY LayoutInvariant, InitialPages, PagesStep, PTL DEF Spec

(***************************************************************************)
(* Whatever collector, buffer capacity, pool size and split a page uses,   *)
(* and whatever is written and merged meanwhile, its rows are the          *)
(* requested window of all matching rows of its snapshot sorted in one     *)
(* piece (block_top_k.rs, scored_top_k.rs, materialized_top_k.rs,          *)
(* doc_order.rs).                                                          *)
(***************************************************************************)
THEOREM PagesAreWindows == Spec => []PageIsWindow
<1>1. Pages => PageIsWindow
  BY DEF Pages
<1> QED BY <1>1, PagesInvariant, PTL

-----------------------------------------------------------------------------
(* The boundary between pages.                                             *)

\* The keys ks lie after the boundary b in the order of the plan.
AfterKeys(b, ks) ==
  \E i \in DOMAIN plan.order :
    /\ \A j \in 1..(i - 1) : ks[j] = b[j]
    /\ KeyBefore(i, b[i], ks[i])

Past(d, b) == b = <<>> \/ AfterKeys(b, GlobalKeys(d))

Boundaries == [DOMAIN plan.order -> Int]

\* A boundary as a hit without a document.
Mark(ks) == [keys |-> ks, address |-> <<0, 0>>]

LEMMA AfterKeysDecided ==
  ASSUME PlanOK, NEW a \in AnyHit, NEW b \in AnyHit
  PROVE  AfterKeys(a.keys, b.keys) <=> \E i \in DOMAIN plan.order : DecidedAt(i, a, b)
<1>1. DOMAIN plan.order = 1..Len(plan.order) /\ Len(plan.order) \in Nat
  BY OrderType DEF PlanOK
<1>2. \A i \in DOMAIN plan.order : a.keys[i] \in KeyValue /\ b.keys[i] \in KeyValue
  BY DEF AnyHit
<1>3. ASSUME NEW i \in DOMAIN plan.order
      PROVE  DecidedAt(i, a, b) <=> /\ \A j \in 1..(i - 1) : b.keys[j] = a.keys[j]
                                    /\ KeyBefore(i, a.keys[i], b.keys[i])
  <2>1. \A j \in DOMAIN plan.order : j < i <=> j \in 1..(i - 1)
    BY <1>1
  <2>2. \A j \in 1..(i - 1) : j \in DOMAIN plan.order
    BY <1>1
  <2>3. KeyBefore(i, a.keys[i], b.keys[i]) => a.keys[i] # b.keys[i]
    BY <1>2, KeyBeforeTotal
  <2> QED BY <2>1, <2>2, <2>3 DEF DecidedAt
<1> QED BY <1>3 DEF AfterKeys

LEMMA MarkType ==
  ASSUME NEW ks \in Boundaries
  PROVE  Mark(ks) \in AnyHit /\ Mark(ks).keys = ks
<1>1. ks \in [DOMAIN plan.order -> KeyValue]
  BY DEF Boundaries, KeyValue
<1> QED BY <1>1 DEF Mark, AnyHit

LEMMA AfterKeysTransitive ==
  ASSUME PlanOK, NEW a \in Boundaries, NEW b \in Boundaries, NEW c \in Boundaries,
         AfterKeys(a, b), AfterKeys(b, c)
  PROVE  AfterKeys(a, c)
<1> DEFINE m == Mark(a)
           n == Mark(b)
           o == Mark(c)
<1>1. /\ m \in AnyHit /\ m.keys = a /\ n \in AnyHit /\ n.keys = b
      /\ o \in AnyHit /\ o.keys = c
  BY MarkType
<1>2. m.address = o.address /\ ~AddressBefore(m.address, o.address)
  BY DEF Mark, AddressBefore
<1> HIDE DEF m, n, o
<1>3. Before(m, n) /\ Before(n, o)
  BY <1>1, AfterKeysDecided, BeforeDecided
<1>4. Before(m, o)
  BY <1>1, <1>3, BeforeTotal
<1>5. \E i \in DOMAIN plan.order : DecidedAt(i, m, o)
  BY <1>1, <1>2, <1>4, BeforeDecided
<1> QED BY <1>1, <1>5, AfterKeysDecided

LEMMA AfterCursorIsPast ==
  ASSUME PlanOK, NEW d
  PROVE  AfterCursor(d) <=> Past(d, after)
<1>1. DOMAIN plan.order = 1..Len(plan.order) /\ Len(plan.order) \in Nat
  BY OrderType DEF PlanOK
<1>2. \A i \in DOMAIN plan.order : GlobalKeys(d)[i] = Value(d, plan.order[i].key)
  BY DEF GlobalKeys
<1>3. \A i \in DOMAIN plan.order : \A j \in 1..(i - 1) : j \in DOMAIN plan.order
  BY <1>1
<1> QED BY <1>2, <1>3 DEF AfterCursor, Past, AfterKeys, KeyBefore

\* The columns a cursor sorts by are the row's own, and not NULL.
LEMMA CursorKeys ==
  ASSUME PlanOK, plan.cursor, NEW d \in Document, NEW row, row = [pk |-> d.pk, val |-> d.val]
  PROVE  GlobalKeys(d) \in Boundaries /\ CursorValues(row) = GlobalKeys(d)
<1>1. \A i \in DOMAIN plan.order : /\ plan.order[i].key \in {"pk", "val"}
                                   /\ plan.order[i].key = "val" => ~plan.nullable
  BY DEF PlanOK
<1>2. d.pk \in Int /\ (~plan.nullable => d.val \in Int)
  <2>1. Keys \subseteq Int
    BY ListingAssumption, FS_CardinalityType
  <2>2. d.pk \in Keys /\ (~plan.nullable => d.val \in Values)
    BY DEF Document, Cell
  <2> QED BY <2>1, <2>2, ListingAssumption
<1>3. row.pk = d.pk /\ row.val = d.val
  OBVIOUS
<1>4. \A k \in {"pk", "val"} : /\ Value(d, k) = (IF k = "pk" THEN d.pk ELSE d.val)
                               /\ Value(row, k) = (IF k = "pk" THEN d.pk ELSE d.val)
  <2>1. Value(d, "pk") = d.pk /\ Value(row, "pk") = d.pk
    BY <1>3 DEF Value
  <2>2. Value(d, "val") = d.val /\ Value(row, "val") = d.val
    BY <1>3 DEF Value
  <2> QED BY <2>1, <2>2
<1>5. \A i \in DOMAIN plan.order : /\ Value(d, plan.order[i].key) \in Int
                                   /\ Value(row, plan.order[i].key) = Value(d, plan.order[i].key)
  BY <1>1, <1>2, <1>4
<1> QED BY <1>5 DEF GlobalKeys, CursorValues, Boundaries

\* A boundary that a hit gives parts the hits as their order does.
LEMMA CursorOrder ==
  ASSUME PlanOK, plan.cursor, searcher \in Seq(Seq(Document)), OneLiveDocument(searcher),
         NEW g \in AllHits, NEW h \in AllHits
  PROVE  AfterKeys(g.keys, h.keys) <=> Before(g, h)
<1>1. g \in AnyHit /\ h \in AnyHit
  BY AllHitsType
<1>2. ASSUME g.keys = h.keys PROVE g = h
  <2>1. PICK s \in DOMAIN searcher : \E i \in DOMAIN searcher[s] :
          g = GlobalHit(s, i) /\ Matches(searcher[s][i])
    BY AllHitsType
  <2>2. PICK i \in DOMAIN searcher[s] : g = GlobalHit(s, i) /\ Matches(searcher[s][i])
    BY <2>1
  <2>3. PICK u \in DOMAIN searcher : \E j \in DOMAIN searcher[u] :
          h = GlobalHit(u, j) /\ Matches(searcher[u][j])
    BY AllHitsType
  <2>4. PICK j \in DOMAIN searcher[u] : h = GlobalHit(u, j) /\ Matches(searcher[u][j])
    BY <2>3
  <2>5. PICK k \in DOMAIN plan.order : plan.order[k].key = "pk"
    BY DEF PlanOK
  <2>6. g.keys[k] = searcher[s][i].pk /\ h.keys[k] = searcher[u][j].pk
    <3>1. /\ g.keys[k] = Value(searcher[s][i], plan.order[k].key)
          /\ h.keys[k] = Value(searcher[u][j], plan.order[k].key)
      BY <2>2, <2>4, GlobalHitType
    <3>2. \A d : Value(d, "pk") = d.pk
      BY DEF Value
    <3> QED BY <2>5, <3>1, <3>2
  <2>7. searcher[s][i].live /\ searcher[u][j].live /\ searcher[s][i].pk = searcher[u][j].pk
    BY <1>2, <2>2, <2>4, <2>6 DEF Matches
  <2>8. s = u /\ i = j
    BY <2>7 DEF OneLiveDocument
  <2> QED BY <2>2, <2>4, <2>8
<1>3. ~Before(h, h)
  BY <1>1, BeforeTotal
<1>4. Before(g, h) => g.keys # h.keys
  BY <1>2, <1>3
<1>5. Before(g, h) <=> \/ \E i \in DOMAIN plan.order : DecidedAt(i, g, h)
                       \/ g.keys = h.keys /\ AddressBefore(g.address, h.address)
  BY <1>1, BeforeDecided
<1> QED BY <1>1, <1>4, <1>5, AfterKeysDecided

LEMMA ReferenceRows ==
  ASSUME PlanOK, searcher \in Seq(Seq(Document))
  PROVE  /\ Len(Reference) = Cardinality(AllHits) /\ Cardinality(AllHits) \in Nat
         /\ \A i \in 1..Cardinality(AllHits) :
              Reference[i] = LoadRow(Sorted(AllHits, Precedes(AllHits))[i].address)
<1> DEFINE p == Sorted(AllHits, Precedes(AllHits))
           rows == [i \in DOMAIN p |-> LoadRow(p[i].address)]
           n == Cardinality(AllHits)
<1>1. Reference = rows
  BY DEF Reference, AllHits, Selected
<1>2. /\ rows \in Seq(Row) /\ Len(rows) = n /\ n \in Nat
      /\ \A i \in 1..n : rows[i] = LoadRow(p[i].address)
  BY RowsOfHits
<1> HIDE DEF rows
<1> QED BY <1>1, <1>2

\* The page of a cursor listing, hit by hit.
LEMMA CursorPage ==
  ASSUME Layout, Pages, Finish, plan.cursor,
         NEW p, p = Sorted(AllHits, Precedes(AllHits)), NEW n, n = Cardinality(AllHits)
  PROVE  /\ n \in Nat
         /\ Len(page') = (IF plan.limit <= n THEN plan.limit ELSE n)
         /\ \A i \in 1..Len(page') : i \in 1..n /\ page'[i] = LoadRow(p[i].address)
         /\ n > plan.limit => /\ next' = CursorValues(LoadRow(p[plan.limit].address))
                              /\ phase' = "idle" /\ plan.limit \in 1..n
         /\ n <= plan.limit => phase' = "done"
<1>1. PlanOK /\ searcher \in Seq(Seq(Document)) /\ Planned(searcher, tasks)
  BY DEF Layout, Finish
<1>2. /\ Reference \in Seq(Row)
      /\ page' = Window(Reference, Offset, Offset + plan.limit) /\ page' \in Seq(Row)
  BY FinishPage
<1>3. seen \in Seq(Row) /\ DOMAIN fruits = tasks /\ \A t \in tasks : Harvested(t, fruits[t])
  BY DEF Pages, Finish
<1>4. Offset = 0 /\ TopN = plan.limit + 1 /\ plan.limit \in Nat \ {0}
  <2>1. Offset = 0 /\ TopN = plan.limit + 1 + Offset
    BY <1>1, <1>3, TopNType
  <2> QED BY <1>1, <2>1 DEF PlanOK
<1>5. Merged = Window(Reference, Offset, TopN)
  BY <1>1, <1>3, <1>4, MergedIsWindow
<1> DEFINE all == Reference
           w == Window(all, Offset, Offset + plan.limit)
           m == Window(all, Offset, TopN)
<1>6. /\ Len(all) = n /\ n \in Nat
      /\ \A i \in 1..n : all[i] = LoadRow(p[i].address)
  BY <1>1, ReferenceRows
<1> HIDE DEF all
<1>7. Offset + plan.limit = plan.limit /\ Offset \in Nat /\ TopN \in Nat
      /\ Offset + plan.limit \in Nat /\ all \in Seq(Row)
  BY <1>2, <1>4 DEF all
<1> DEFINE k == IF Offset + plan.limit <= Len(all) THEN Offset + plan.limit ELSE Len(all)
           l == IF TopN <= Len(all) THEN TopN ELSE Len(all)
<1>8. /\ Len(w) = (IF Offset <= k THEN k - Offset ELSE 0)
      /\ \A i \in 1..Len(w) : w[i] = all[Offset + i]
  BY <1>7, WindowElements, SMTT(30)
<1>9. Len(m) = IF Offset <= l THEN l - Offset ELSE 0
  BY <1>7, WindowElements, ZenonT(60)
<1>10. page' = w /\ Merged = m
  BY <1>2, <1>5 DEF all
<1> HIDE DEF w, m
<1>11. Len(w) = (IF plan.limit <= n THEN plan.limit ELSE n)
  BY <1>4, <1>6, <1>8
<1>12. ASSUME NEW i \in 1..Len(w) PROVE i \in 1..n /\ w[i] = LoadRow(p[i].address)
  <2>1. Offset + i = i /\ i \in 1..n
    BY <1>4, <1>6, <1>11
  <2> QED BY <1>6, <1>8, <2>1
<1>13. Len(m) > plan.limit <=> n > plan.limit
  BY <1>4, <1>6, <1>9
<1>14. /\ next' = (IF plan.cursor /\ Len(Merged) > plan.limit
                   THEN CursorValues(page'[plan.limit]) ELSE <<>>)
       /\ phase' = (IF (plan.cursor /\ Len(Merged) > plan.limit)
                       \/ (~plan.cursor /\ Len(page') = plan.limit) THEN "idle" ELSE "done")
  BY DEF Finish
<1>15. n > plan.limit => plan.limit \in 1..Len(w)
  BY <1>4, <1>6, <1>11
<1> QED BY <1>6, <1>10, <1>11, <1>12, <1>13, <1>14, <1>15

\* A row of the page and its document.
LEMMA HitDocument ==
  ASSUME PlanOK, searcher \in Seq(Seq(Document)), NEW h \in AllHits
  PROVE  \E s \in DOMAIN searcher : \E i \in DOMAIN searcher[s] :
           /\ h = GlobalHit(s, i) /\ Matches(searcher[s][i]) /\ searcher[s][i] \in Document
           /\ LoadRow(h.address) = [pk |-> searcher[s][i].pk, val |-> searcher[s][i].val]
           /\ h.keys = GlobalKeys(searcher[s][i])
           /\ plan.cursor => /\ h.keys \in Boundaries
                             /\ CursorValues(LoadRow(h.address)) = h.keys
<1>1. PICK s \in DOMAIN searcher : \E i \in DOMAIN searcher[s] :
        h = GlobalHit(s, i) /\ Matches(searcher[s][i])
  BY AllHitsType
<1>2. PICK i \in DOMAIN searcher[s] : h = GlobalHit(s, i) /\ Matches(searcher[s][i])
  BY <1>1
<1>3. searcher[s][i] \in Document
  BY SegmentFacts
<1>4. h.address = <<s, i>> /\ h.keys = GlobalKeys(searcher[s][i])
  BY <1>2 DEF GlobalHit
<1> DEFINE row == [pk |-> searcher[s][i].pk, val |-> searcher[s][i].val]
<1>5. LoadRow(h.address) = row
  BY <1>4 DEF LoadRow
<1>6. plan.cursor => /\ GlobalKeys(searcher[s][i]) \in Boundaries
                     /\ CursorValues(row) = GlobalKeys(searcher[s][i])
  BY <1>3, CursorKeys
<1> HIDE DEF row
<1>7. plan.cursor => h.keys \in Boundaries /\ CursorValues(LoadRow(h.address)) = h.keys
  BY <1>4, <1>5, <1>6
<1> QED BY <1>2, <1>3, <1>4, <1>5, <1>7 DEF row

\* The boundaries handed out and asked with, and the snapshot they are applied to.
Cursors ==
  /\ OneLiveDocument(searcher)
  /\ next = <<>> \/ (plan.cursor /\ next \in Boundaries)
  /\ after = <<>> \/ (plan.cursor /\ after \in Boundaries)

LEMMA SortedHits ==
  ASSUME PlanOK, searcher \in Seq(Seq(Document)),
         NEW p, p = Sorted(AllHits, Precedes(AllHits)), NEW n, n = Cardinality(AllHits)
  PROVE  /\ \A i \in 1..n : p[i] \in AllHits
         /\ \A h \in AllHits : \E i \in 1..n : p[i] = h
         /\ \A i, j \in 1..n : Before(p[i], p[j]) <=> i < j
         /\ n \in Nat
<1> DEFINE S == AllHits
           R == Precedes(S)
<1>1. IsFiniteSet(S) /\ Total(S, R)
  BY AllHitsType, PrecedesTotal
<1>2. n \in Nat
  BY <1>1, FS_CardinalityType
<1>3. /\ \A k \in 1..n : p[k] \in S /\ Rank(S, R, p[k]) = k - 1
      /\ \A x \in S : Rank(S, R, x) + 1 \in 1..n /\ p[Rank(S, R, x) + 1] = x
  BY <1>1, SortedProperties
<1>4. ASSUME NEW i \in 1..n, NEW j \in 1..n PROVE Before(p[i], p[j]) <=> i < j
  <2>1. p[i] \in S /\ p[j] \in S /\ Rank(S, R, p[i]) = i - 1 /\ Rank(S, R, p[j]) = j - 1
    BY <1>3
  <2> HIDE DEF S
  <2>2. Rank(S, R, p[i]) < Rank(S, R, p[j]) <=> <<p[i], p[j]>> \in R
    BY <1>1, <2>1, RankOrders
  <2>3. <<p[i], p[j]>> \in R <=> Before(p[i], p[j])
    BY <2>1 DEF Precedes
  <2>4. i \in Int /\ j \in Int
    OBVIOUS
  <2> QED BY <2>1, <2>2, <2>3, <2>4
<1> QED BY <1>2, <1>3, <1>4

LEMMA NextBoundary ==
  ASSUME Layout, Pages, Finish, plan.cursor, phase' = "idle"
  PROVE  next' \in Boundaries /\ (after = <<>> \/ AfterKeys(after, next'))
<1> DEFINE p == Sorted(AllHits, Precedes(AllHits))
           n == Cardinality(AllHits)
           h == p[plan.limit]
<1>1. PlanOK /\ searcher \in Seq(Seq(Document))
  BY DEF Layout
<1>2. /\ n \in Nat
      /\ n > plan.limit => /\ next' = CursorValues(LoadRow(h.address))
                           /\ plan.limit \in 1..n
      /\ n <= plan.limit => phase' = "done"
  BY CursorPage
<1>3. \A i \in 1..n : p[i] \in AllHits
  BY <1>1, SortedHits
<1> HIDE DEF p, n
<1>4. n > plan.limit
  BY <1>1, <1>2 DEF PlanOK
<1>5. h \in AllHits /\ next' = CursorValues(LoadRow(h.address))
  BY <1>2, <1>3, <1>4
<1> HIDE DEF h
<1>6. PICK s \in DOMAIN searcher : \E i \in DOMAIN searcher[s] :
        /\ Matches(searcher[s][i]) /\ h.keys = GlobalKeys(searcher[s][i])
        /\ h.keys \in Boundaries /\ CursorValues(LoadRow(h.address)) = h.keys
  BY <1>1, <1>5, HitDocument
<1>7. PICK i \in DOMAIN searcher[s] :
        /\ Matches(searcher[s][i]) /\ h.keys = GlobalKeys(searcher[s][i])
        /\ h.keys \in Boundaries /\ CursorValues(LoadRow(h.address)) = h.keys
  BY <1>6
<1>8. Past(searcher[s][i], after)
  BY <1>1, <1>7, AfterCursorIsPast DEF Matches
<1> QED BY <1>5, <1>7, <1>8 DEF Past

LEMMA InitialCursors == Init => Cursors
BY DEF Init, Cursors, OneLiveDocument

LEMMA CursorsStep ==
  Layout /\ OneLiveDocument(segments) /\ Pages /\ Cursors /\ [Next]_vars => Cursors'
<1> SUFFICES ASSUME Layout, OneLiveDocument(segments), Pages, Cursors, [Next]_vars PROVE Cursors'
  OBVIOUS
<1>1. plan' = plan
  BY PlanStays
<1>2. Boundaries' = Boundaries
  BY <1>1 DEF Boundaries
<1>3. \A segs : OneLiveDocument(segs)' <=> OneLiveDocument(segs)
  BY DEF OneLiveDocument
<1>4. ASSUME OneLiveDocument(searcher'),
             next' = <<>> \/ (plan.cursor /\ next' \in Boundaries),
             after' = <<>> \/ (plan.cursor /\ after' \in Boundaries)
      PROVE  Cursors'
  BY <1>1, <1>2, <1>4 DEF Cursors
<1>5. CASE UNCHANGED <<searcher, next, after>>
  BY <1>4, <1>5 DEF Cursors
<1>6. CASE Start
  BY <1>4, <1>6 DEF Start, Cursors
<1>7. ASSUME NEW t \in tasks, Collect(t) PROVE Cursors'
  BY <1>5, <1>7 DEF Collect
<1>8. CASE Finish
  <2>1. UNCHANGED <<searcher, after>>
    BY <1>8 DEF Finish
  <2>2. next' # <<>> => plan.cursor /\ phase' = "idle"
    BY <1>8 DEF Finish
  <2>3. next' = <<>> \/ (plan.cursor /\ next' \in Boundaries)
    BY <1>8, <2>2, NextBoundary
  <2> QED BY <1>4, <2>1, <2>3 DEF Cursors
<1>9. CASE Again
  <2>1. searcher' = <<>> /\ next' = <<>> /\ after' = <<>>
    BY <1>9 DEF Again
  <2>2. OneLiveDocument(searcher')
    BY <2>1 DEF OneLiveDocument
  <2> QED BY <1>4, <2>1, <2>2
<1>10. ASSUME NEW k \in Keys, NEW v \in Values \cup {Null}, Upsert(k, v) PROVE Cursors'
  BY <1>5, <1>10 DEF Upsert, Written
<1>11. ASSUME NEW k \in Keys, Delete(k) PROVE Cursors'
  BY <1>5, <1>11 DEF Delete, Written
<1>12. ASSUME NEW m \in Targets, Optimize(m) PROVE Cursors'
  BY <1>5, <1>12 DEF Optimize
<1>13. CASE UNCHANGED vars
  BY <1>5, <1>13 DEF vars
<1> QED BY <1>6, <1>7, <1>8, <1>9, <1>10, <1>11, <1>12, <1>13 DEF Next

LEMMA CursorsInvariant == Spec => []Cursors
BY LayoutInvariant, PagesInvariant, InitialCursors, CursorsStep, PTL DEF Spec

(***************************************************************************)
(* Every page that promises another one moves its boundary strictly        *)
(* forward in the sort order, for every order of the key and a column      *)
(* without NULL and whatever is written between the pages (cursor_values,  *)
(* filter_after_cursor).                                                   *)
(***************************************************************************)
THEOREM BoundaryAdvances == Spec => CursorAdvances
<1> DEFINE Advance ==
      phase = "collecting" /\ phase' = "idle" /\ plan.cursor =>
        \/ after = <<>>
        \/ \E i \in DOMAIN plan.order :
             /\ \A j \in 1..(i - 1) : next'[j] = after[j]
             /\ IF plan.order[i].asc THEN after[i] < next'[i] ELSE next'[i] < after[i]
<1>1. ASSUME Layout, Pages, Cursors, Next PROVE Advance
  <2> SUFFICES ASSUME phase = "collecting", phase' = "idle", plan.cursor, after # <<>>
               PROVE  \E i \in DOMAIN plan.order :
                        /\ \A j \in 1..(i - 1) : next'[j] = after[j]
                        /\ IF plan.order[i].asc THEN after[i] < next'[i] ELSE next'[i] < after[i]
    OBVIOUS
  <2>1. Finish
    BY <1>1 DEF Next, Start, Collect, Again, Upsert, Delete, Written, Optimize
  <2>2. next' \in Boundaries /\ AfterKeys(after, next')
    BY <1>1, <2>1, NextBoundary
  <2>3. after \in Boundaries
    BY <1>1 DEF Cursors
  <2>4. PICK i \in DOMAIN plan.order : /\ \A j \in 1..(i - 1) : next'[j] = after[j]
                                       /\ KeyBefore(i, after[i], next'[i])
    BY <2>2 DEF AfterKeys
  <2>5. after[i] \in Int /\ next'[i] \in Int
    BY <2>2, <2>3 DEF Boundaries
  <2>6. IF plan.order[i].asc THEN after[i] < next'[i] ELSE next'[i] < after[i]
    BY <2>4, <2>5, ListingAssumption DEF KeyBefore, Less
  <2> QED BY <2>4, <2>6
<1>2. Layout /\ Pages /\ Cursors /\ [Next]_vars => [Advance]_vars
  BY <1>1
<1> QED BY <1>2, LayoutInvariant, PagesInvariant, CursorsInvariant, PTL DEF Spec, CursorAdvances

-----------------------------------------------------------------------------
(* A row nobody touches is listed once.                                    *)

PlacesIn(rows, k) == {i \in DOMAIN rows : rows[i].pk = k}

LEMMA LiveRowAt ==
  ASSUME NEW segs, NEW d
  PROVE  d \in LiveRows(segs) <=>
           d.live /\ \E s \in DOMAIN segs : \E i \in DOMAIN segs[s] : segs[s][i] = d
BY DEF LiveRows, Range

\* A live document of the snapshot: on the page once, or not on it and behind the
\* new boundary, or not on it because it was before the old one.
LEMMA PageOfKey ==
  ASSUME Layout, Pages, Cursors, Finish, plan.cursor, NEW d \in LiveRows(searcher)
  PROVE  /\ ~Past(d, after) => /\ PlacesIn(page', d.pk) = {}
                               /\ phase' = "idle" => ~Past(d, next')
         /\ Past(d, after) =>
              \/ /\ \E i : PlacesIn(page', d.pk) = {i}
                 /\ phase' = "idle" => ~Past(d, next')
              \/ PlacesIn(page', d.pk) = {} /\ phase' = "idle" /\ Past(d, next')
<1> DEFINE p == Sorted(AllHits, Precedes(AllHits))
           n == Cardinality(AllHits)
           len == Len(page')
<1>1. /\ PlanOK /\ searcher \in Seq(Seq(Document)) /\ OneLiveDocument(searcher)
      /\ plan.limit \in Nat \ {0}
  BY DEF Layout, Cursors, PlanOK
<1>2. /\ n \in Nat
      /\ len = (IF plan.limit <= n THEN plan.limit ELSE n)
      /\ \A i \in 1..len : i \in 1..n /\ page'[i] = LoadRow(p[i].address)
      /\ n > plan.limit => /\ next' = CursorValues(LoadRow(p[plan.limit].address))
                           /\ phase' = "idle" /\ plan.limit \in 1..n
      /\ n <= plan.limit => phase' = "done"
  BY CursorPage
<1>3. DOMAIN page' = 1..len
  <2>1. page' \in Seq(Row)
    BY FinishPage
  <2> QED BY <2>1, LenProperties
<1>4. /\ \A i \in 1..n : p[i] \in AllHits
      /\ \A h \in AllHits : \E i \in 1..n : p[i] = h
      /\ \A i, j \in 1..n : Before(p[i], p[j]) <=> i < j
  BY <1>1, SortedHits
<1> HIDE DEF p, n, len
<1>5. d.live /\ \E s \in DOMAIN searcher : \E t \in DOMAIN searcher[s] : searcher[s][t] = d
  BY LiveRowAt
<1>6. PICK s \in DOMAIN searcher : \E t \in DOMAIN searcher[s] : searcher[s][t] = d
  BY <1>5
<1>7. PICK t \in DOMAIN searcher[s] : searcher[s][t] = d
  BY <1>6
<1>8. d \in Document
  BY <1>1, <1>7, SegmentFacts
<1>9. ASSUME NEW i \in 1..len, page'[i].pk = d.pk PROVE p[i] = GlobalHit(s, t) /\ Matches(d)
  <2>1. p[i] \in AllHits /\ page'[i] = LoadRow(p[i].address)
    BY <1>2, <1>4
  <2>2. PICK u \in DOMAIN searcher : \E j \in DOMAIN searcher[u] :
          /\ p[i] = GlobalHit(u, j) /\ Matches(searcher[u][j])
          /\ LoadRow(p[i].address) = [pk |-> searcher[u][j].pk, val |-> searcher[u][j].val]
    BY <1>1, <2>1, HitDocument
  <2>3. PICK j \in DOMAIN searcher[u] :
          /\ p[i] = GlobalHit(u, j) /\ Matches(searcher[u][j])
          /\ LoadRow(p[i].address) = [pk |-> searcher[u][j].pk, val |-> searcher[u][j].val]
    BY <2>2
  <2>4. searcher[u][j].pk = d.pk
    BY <1>9, <2>1, <2>3
  <2>5. searcher[u][j].live
    BY <2>3 DEF Matches
  <2>6. u = s /\ j = t
    BY <1>1, <1>5, <1>7, <2>4, <2>5 DEF OneLiveDocument
  <2> QED BY <1>7, <2>3, <2>6
<1>10. Matches(d) <=> Past(d, after)
  <2>1. Matches(d) <=> AfterCursor(d)
    BY <1>1, <1>5 DEF Matches, PlanOK
  <2> QED BY <1>1, <2>1, AfterCursorIsPast
<1>11. phase' = "idle" => next' \in Boundaries /\ (after = <<>> \/ AfterKeys(after, next'))
  BY NextBoundary
<1>12. next' \in Boundaries => next' # <<>>
  BY <1>1 DEF PlanOK, Boundaries
<1>13. GlobalKeys(d) \in Boundaries
  BY <1>1, <1>8, CursorKeys
<1>14. CASE ~Past(d, after)
  <2>1. PlacesIn(page', d.pk) = {}
    BY <1>3, <1>9, <1>10, <1>14 DEF PlacesIn
  <2>2. ASSUME phase' = "idle", Past(d, next') PROVE FALSE
    <3>1. next' \in Boundaries /\ AfterKeys(next', GlobalKeys(d))
      BY <1>11, <1>12, <2>2 DEF Past
    <3>2. after # <<>> /\ after \in Boundaries /\ AfterKeys(after, next')
      BY <1>11, <1>14, <2>2 DEF Past, Cursors
    <3>3. AfterKeys(after, GlobalKeys(d))
      BY <1>1, <1>13, <3>1, <3>2, AfterKeysTransitive
    <3> QED BY <1>14, <3>3 DEF Past
  <2> QED BY <1>14, <2>1, <2>2
<1>15. CASE Past(d, after)
  <2> DEFINE h == GlobalHit(s, t)
  <2>1. h \in AllHits
    BY <1>1, <1>7, <1>10, <1>15, AllHitsType
  <2>2. h.keys = GlobalKeys(d) /\ LoadRow(h.address).pk = d.pk
    <3>1. h.address = <<s, t>> /\ h.keys = GlobalKeys(d)
      BY <1>7 DEF GlobalHit
    <3> HIDE DEF h
    <3> QED BY <1>7, <3>1 DEF LoadRow
  <2> HIDE DEF h
  <2>3. PICK r \in 1..n : p[r] = h
    BY <1>4, <2>1
  <2>4. ASSUME NEW i \in 1..len, page'[i].pk = d.pk PROVE i = r
    <3>1. p[i] = p[r] /\ i \in 1..n
      BY <1>2, <1>9, <2>3, <2>4 DEF h
    <3>2. ~ (i < r) /\ ~ (r < i)
      <4>1. (Before(p[i], p[r]) <=> i < r) /\ (Before(p[r], p[i]) <=> r < i)
            /\ (Before(p[r], p[r]) <=> r < r)
        BY <1>4, <3>1
      <4> QED BY <3>1, <4>1
    <3> QED BY <3>1, <3>2
  <2>5. phase' = "idle" => (Past(d, next') <=> plan.limit < r)
    <3> SUFFICES ASSUME phase' = "idle" PROVE Past(d, next') <=> plan.limit < r
      OBVIOUS
    <3>1. n > plan.limit
      BY <1>1, <1>2
    <3> DEFINE g == p[plan.limit]
    <3>2. plan.limit \in 1..n /\ g \in AllHits /\ next' = CursorValues(LoadRow(g.address))
      BY <1>2, <1>4, <3>1
    <3>3. next' = g.keys
      <4> HIDE DEF g
      <4> QED BY <1>1, <3>2, HitDocument
    <3>4. Past(d, next') <=> AfterKeys(g.keys, h.keys)
      BY <1>11, <1>12, <2>2, <3>3 DEF Past
    <3>5. AfterKeys(g.keys, h.keys) <=> Before(g, h)
      <4> HIDE DEF g
      <4> QED BY <1>1, <2>1, <3>2, CursorOrder
    <3> QED BY <1>4, <2>3, <3>2, <3>4, <3>5
  <2>6. CASE r <= len
    <3>1. r \in 1..len
      BY <1>2, <2>6
    <3>2. page'[r].pk = d.pk
      BY <1>2, <2>2, <2>3, <3>1
    <3>3. PlacesIn(page', d.pk) = {r}
      BY <1>3, <2>4, <3>1, <3>2 DEF PlacesIn
    <3>4. ~ (plan.limit < r)
      BY <1>1, <1>2, <2>6
    <3> QED BY <1>15, <2>5, <3>3, <3>4
  <2>7. CASE ~ (r <= len)
    <3>1. plan.limit < r /\ n > plan.limit
      BY <1>1, <1>2, <2>7
    <3>2. PlacesIn(page', d.pk) = {}
      BY <1>3, <2>4, <2>7 DEF PlacesIn
    <3> QED BY <1>2, <1>15, <2>5, <3>1, <3>2
  <2> QED BY <2>6, <2>7
<1> QED BY <1>14, <1>15

\* Where a key is after one more page.
LEMMA PlacesOfConcat ==
  ASSUME NEW s \in Seq(Row), NEW t \in Seq(Row), NEW k
  PROVE  /\ PlacesIn(t, k) = {} => PlacesIn(s \o t, k) = PlacesIn(s, k)
         /\ (PlacesIn(s, k) = {} /\ \E i : PlacesIn(t, k) = {i})
              => \E i : PlacesIn(s \o t, k) = {i}
<1> DEFINE c == s \o t
<1>1. /\ Len(s) \in Nat /\ DOMAIN s = 1..Len(s)
      /\ Len(t) \in Nat /\ DOMAIN t = 1..Len(t)
  BY LenProperties
<1>2. /\ c \in Seq(Row) /\ Len(c) = Len(s) + Len(t)
      /\ \A i \in 1..(Len(s) + Len(t)) : c[i] = IF i <= Len(s) THEN s[i] ELSE t[i - Len(s)]
  BY ConcatProperties
<1>3. DOMAIN c = 1..(Len(s) + Len(t))
  BY <1>2, LenProperties
<1> HIDE DEF c
<1>4. \A i \in DOMAIN s : i \in DOMAIN c /\ c[i] = s[i]
  BY <1>1, <1>2, <1>3
<1>5. \A i \in DOMAIN t : Len(s) + i \in DOMAIN c /\ c[Len(s) + i] = t[i]
  BY <1>1, <1>2, <1>3
<1>6. \A i \in DOMAIN c : i \in DOMAIN s \/ (i - Len(s) \in DOMAIN t /\ c[i] = t[i - Len(s)])
  BY <1>1, <1>2, <1>3
<1>7. PlacesIn(t, k) = {} => PlacesIn(c, k) = PlacesIn(s, k)
  BY <1>4, <1>6 DEF PlacesIn
<1>8. ASSUME PlacesIn(s, k) = {}, NEW i, PlacesIn(t, k) = {i} PROVE PlacesIn(c, k) = {Len(s) + i}
  <2>1. i \in DOMAIN t /\ t[i].pk = k /\ \A j \in DOMAIN t : t[j].pk = k => j = i
    BY <1>8 DEF PlacesIn
  <2>2. Len(s) + i \in DOMAIN c /\ c[Len(s) + i].pk = k
    BY <1>5, <2>1
  <2>3. ASSUME NEW j \in DOMAIN c, c[j].pk = k PROVE j = Len(s) + i
    <3>1. j \notin DOMAIN s
      BY <1>4, <1>8, <2>3 DEF PlacesIn
    <3>2. j - Len(s) = i
      BY <1>6, <2>1, <2>3, <3>1
    <3> QED BY <1>1, <1>3, <3>2
  <2> QED BY <2>2, <2>3 DEF PlacesIn
<1> QED BY <1>7, <1>8 DEF c

\* A row listed once if it lies before the boundary, and not yet if behind it.
Listed(rows, d, b) ==
  IF Past(d, b) THEN PlacesIn(rows, d.pk) = {} ELSE \E i : PlacesIn(rows, d.pk) = {i}

Untouched ==
  \A d \in start : d.pk \notin touched =>
    /\ d \in LiveRows(segments)
    /\ phase = "collecting" => d \in LiveRows(searcher)
    /\ plan.cursor => /\ phase = "idle" => Listed(seen, d, next)
                      /\ phase = "collecting" => Listed(seen, d, after)
                      /\ phase = "done" => \E i : PlacesIn(seen, d.pk) = {i}

LEMMA UntouchedLists ==
  ASSUME Layout, Untouched
  PROVE  UntouchedOnce
<1> SUFFICES ASSUME plan.cursor, NEW k \in {d.pk : d \in start} \ touched
             PROVE  /\ Cardinality(PlacesIn(seen, k)) <= 1
                    /\ phase = "done" => Cardinality(PlacesIn(seen, k)) = 1
  BY DEF UntouchedOnce, PlacesIn
<1>1. PICK d \in start : d.pk = k
  OBVIOUS
<1>2. PlacesIn(seen, k) = {} \/ \E i : PlacesIn(seen, k) = {i}
  BY <1>1 DEF Untouched, Listed, Layout
<1>3. phase = "done" => \E i : PlacesIn(seen, k) = {i}
  BY <1>1 DEF Untouched
<1>4. \A i : Cardinality({i}) = 1
  BY FS_Singleton
<1>5. Cardinality({}) = 0
  BY FS_EmptySet
<1> DEFINE P == PlacesIn(seen, k)
<1>6. (\E i : P = {i}) => Cardinality(P) = 1
  BY <1>4
<1>7. P = {} => Cardinality(P) = 0
  BY <1>5
<1> QED BY <1>2, <1>3, <1>6, <1>7

LEMMA NothingListed ==
  ASSUME NEW d
  PROVE  Listed(<<>>, d, <<>>)
BY DEF Listed, Past, PlacesIn

\* A write leaves the live documents of other keys.
LEMMA KillLeaves ==
  ASSUME segments \in Seq(Seq(Document)), NEW k, NEW d \in LiveRows(segments), d.pk # k
  PROVE  /\ d \in LiveRows(Kill(k))
         /\ \A seg : d \in LiveRows(Append(Kill(k), seg))
<1>1. d.live /\ \E s \in DOMAIN segments : \E i \in DOMAIN segments[s] : segments[s][i] = d
  BY LiveRowAt
<1>2. PICK s \in DOMAIN segments : \E i \in DOMAIN segments[s] : segments[s][i] = d
  BY <1>1
<1>3. PICK i \in DOMAIN segments[s] : segments[s][i] = d
  BY <1>2
<1>4. /\ Kill(k) \in Seq(Seq(Document)) /\ DOMAIN Kill(k) = DOMAIN segments
      /\ DOMAIN Kill(k)[s] = DOMAIN segments[s]
  BY KillType
<1>5. Kill(k)[s][i] = d
  BY <1>3 DEF Kill
<1>6. d \in LiveRows(Kill(k))
  BY <1>1, <1>4, <1>5, LiveRowAt
<1>7. ASSUME NEW seg PROVE d \in LiveRows(Append(Kill(k), seg))
  <2> DEFINE segs == Kill(k)
             new == Append(segs, seg)
  <2>1. Len(segs) \in Nat /\ DOMAIN segs = 1..Len(segs) /\ s \in DOMAIN segs
        /\ i \in DOMAIN segs[s] /\ segs[s][i] = d
    BY <1>4, <1>5, LenProperties
  <2> HIDE DEF segs
  <2>2. s \in DOMAIN new /\ new[s] = segs[s]
    BY <2>1
  <2> HIDE DEF new
  <2>3. d \in LiveRows(new)
    BY <1>1, <2>1, <2>2, LiveRowAt
  <2> QED BY <2>3 DEF new, segs
<1> QED BY <1>6, <1>7

LEMMA InitialUntouched == Init => Untouched
<1> SUFFICES ASSUME Init, NEW d \in start
             PROVE  /\ d \in LiveRows(segments)
                    /\ phase = "idle" /\ Listed(seen, d, next)
  BY DEF Untouched
<1> QED BY NothingListed DEF Init

LEMMA UntouchedStep ==
  Layout /\ Pages /\ Cursors /\ Untouched /\ [Next]_vars => Untouched'
<1> SUFFICES ASSUME Layout, Pages, Cursors, Untouched, [Next]_vars PROVE Untouched'
  OBVIOUS
<1>1. plan' = plan
  BY PlanStays
<1>2. \A rows, d, b : Listed(rows, d, b)' <=> Listed(rows, d, b)
  BY <1>1 DEF Listed, Past, AfterKeys, KeyBefore, GlobalKeys, Value, Score, Less, PlacesIn
<1>3. segments \in Seq(Seq(Document)) /\ phase \in {"idle", "collecting", "done"}
  BY DEF Layout
<1>4. ASSUME \A d \in start' : d.pk \notin touched' =>
               /\ d \in LiveRows(segments')
               /\ phase' = "collecting" => d \in LiveRows(searcher')
               /\ plan.cursor => /\ phase' = "idle" => Listed(seen', d, next')
                                 /\ phase' = "collecting" => Listed(seen', d, after')
                                 /\ phase' = "done" => \E i : PlacesIn(seen', d.pk) = {i}
      PROVE  Untouched'
  <2>1. \A d : Listed(seen, d, next)' <=> Listed(seen', d, next')
    BY <1>1 DEF Listed, Past, AfterKeys, KeyBefore, GlobalKeys, Value, Score, Less, PlacesIn
  <2>2. \A d : Listed(seen, d, after)' <=> Listed(seen', d, after')
    BY <1>1 DEF Listed, Past, AfterKeys, KeyBefore, GlobalKeys, Value, Score, Less, PlacesIn
  <2>3. \A segs : LiveRows(segs)' = LiveRows(segs)
    BY DEF LiveRows
  <2>4. \A d : (\E i : PlacesIn(seen, d.pk) = {i})' <=> \E i : PlacesIn(seen', d.pk) = {i}
    BY DEF PlacesIn
  <2> QED BY <1>1, <1>4, <2>1, <2>2, <2>3, <2>4 DEF Untouched
<1>5. ASSUME UNCHANGED <<phase, searcher, after, next, seen, start>>,
             \A d \in start : d.pk \notin touched' =>
               d.pk \notin touched /\ d \in LiveRows(segments')
      PROVE  Untouched'
  BY <1>4, <1>5 DEF Untouched
<1>6. CASE UNCHANGED <<segments, phase, searcher, after, next, seen, start, touched>>
  BY <1>5, <1>6 DEF Untouched
<1>7. CASE Start
  BY <1>4, <1>7 DEF Start, Untouched
<1>8. ASSUME NEW t \in tasks, Collect(t) PROVE Untouched'
  BY <1>6, <1>8 DEF Collect
<1>9. CASE Finish
  <2> SUFFICES ASSUME NEW d \in start, d.pk \notin touched
               PROVE  /\ d \in LiveRows(segments)
                      /\ plan.cursor =>
                           /\ phase' = "idle" => Listed(seen', d, next')
                           /\ phase' = "done" => \E i : PlacesIn(seen', d.pk) = {i}
    <3>1. /\ UNCHANGED <<segments, searcher, start, touched>>
          /\ phase' \in {"idle", "done"} /\ phase = "collecting"
      BY <1>9 DEF Finish
    <3> QED BY <1>4, <3>1
  <2>1. phase = "collecting" /\ phase' \in {"idle", "done"}
    BY <1>9 DEF Finish
  <2>2. d \in LiveRows(segments) /\ d \in LiveRows(searcher)
    BY <2>1 DEF Untouched
  <2>3. ASSUME plan.cursor
        PROVE  /\ phase' = "idle" => Listed(seen', d, next')
               /\ phase' = "done" => \E i : PlacesIn(seen', d.pk) = {i}
    <3>1. Listed(seen, d, after)
      BY <2>1, <2>3 DEF Untouched
    <3>2. seen \in Seq(Row) /\ page' \in Seq(Row) /\ seen' = seen \o page'
      BY <1>9, FinishPage DEF Pages
    <3>3. /\ ~Past(d, after) => /\ PlacesIn(page', d.pk) = {}
                                /\ phase' = "idle" => ~Past(d, next')
          /\ Past(d, after) =>
               \/ /\ \E i : PlacesIn(page', d.pk) = {i}
                  /\ phase' = "idle" => ~Past(d, next')
               \/ PlacesIn(page', d.pk) = {} /\ phase' = "idle" /\ Past(d, next')
      BY <1>9, <2>2, <2>3, PageOfKey
    <3> DEFINE old == PlacesIn(seen, d.pk)
               add == PlacesIn(page', d.pk)
               new == PlacesIn(seen', d.pk)
    <3>4. /\ add = {} => new = old
          /\ (old = {} /\ \E i : add = {i}) => \E i : new = {i}
      <4> DEFINE q == page'
                 k == d.pk
      <4> HIDE DEF q, k
      <4>1. /\ PlacesIn(q, k) = {} => PlacesIn(seen \o q, k) = PlacesIn(seen, k)
            /\ (PlacesIn(seen, k) = {} /\ \E i : PlacesIn(q, k) = {i})
                 => \E i : PlacesIn(seen \o q, k) = {i}
        BY <3>2, PlacesOfConcat DEF q
      <4> QED BY <3>2, <4>1 DEF q, k
    <3>5. IF Past(d, after) THEN old = {} ELSE \E i : old = {i}
      BY <3>1 DEF Listed
    <3> HIDE DEF old, add, new
    <3>6. /\ phase' = "idle" => IF Past(d, next') THEN new = {} ELSE \E i : new = {i}
          /\ phase' = "done" => \E i : new = {i}
      BY <3>3, <3>4, <3>5 DEF add
    <3> QED BY <3>6 DEF Listed, new
  <2> QED BY <2>2, <2>3
<1>10. CASE Again
  <2>1. /\ phase' = "idle" /\ seen' = <<>> /\ next' = <<>>
        /\ start' = LiveRows(segments) /\ segments' = segments
    BY <1>10 DEF Again
  <2> QED BY <1>4, <2>1, NothingListed
<1>11. ASSUME NEW k \in Keys, NEW v \in Values \cup {Null}, Upsert(k, v) PROVE Untouched'
  <2>1. /\ segments' = Append(Kill(k), <<Doc(k, v)>>) /\ touched' = touched \cup {k}
        /\ UNCHANGED <<phase, searcher, after, next, seen, start>>
    BY <1>11 DEF Upsert, Written
  <2>2. ASSUME NEW d \in start, d.pk \notin touched'
        PROVE  d.pk \notin touched /\ d \in LiveRows(segments')
    <3>1. d \in LiveRows(segments) /\ d.pk # k /\ d.pk \notin touched
      BY <2>1, <2>2 DEF Untouched
    <3> QED BY <1>3, <2>1, <3>1, KillLeaves
  <2> QED BY <1>5, <2>1, <2>2
<1>12. ASSUME NEW k \in Keys, Delete(k) PROVE Untouched'
  <2>1. /\ segments' = Kill(k) /\ touched' = touched \cup {k}
        /\ UNCHANGED <<phase, searcher, after, next, seen, start>>
    BY <1>12 DEF Delete, Written
  <2>2. ASSUME NEW d \in start, d.pk \notin touched'
        PROVE  d.pk \notin touched /\ d \in LiveRows(segments')
    <3>1. d \in LiveRows(segments) /\ d.pk # k /\ d.pk \notin touched
      BY <2>1, <2>2 DEF Untouched
    <3> QED BY <1>3, <2>1, <3>1, KillLeaves
  <2> QED BY <1>5, <2>1, <2>2
<1>13. ASSUME NEW n \in Targets, Optimize(n) PROVE Untouched'
  <2>1. PICK order \in MergeOrders : segments' = Optimized(BalancedMergeGroups(order, n))
    BY <1>13 DEF Optimize
  <2>2. n \in Nat \ {0}
    BY ListingAssumption
  <2>3. LiveRows(segments') = LiveRows(segments)
    BY <1>3, <2>1, <2>2, OptimizedKeeps
  <2>4. UNCHANGED <<phase, searcher, after, next, seen, start, touched>>
    BY <1>13 DEF Optimize
  <2> QED BY <1>5, <2>3, <2>4 DEF Untouched
<1>14. CASE UNCHANGED vars
  BY <1>6, <1>14 DEF vars
<1> QED BY <1>7, <1>8, <1>9, <1>10, <1>11, <1>12, <1>13, <1>14 DEF Next

(***************************************************************************)
(* Keyset pages under concurrent writes and merges: a row nobody touches   *)
(* during the listing is never returned twice, and has been returned once  *)
(* the cursor has run out (cursor.rs).                                     *)
(***************************************************************************)
THEOREM UntouchedRowsOnce == Spec => []UntouchedOnce
<1>1. Layout /\ Untouched => UntouchedOnce
  BY UntouchedLists
<1>2. Spec => []Untouched
  BY LayoutInvariant, PagesInvariant, CursorsInvariant, InitialUntouched, UntouchedStep, PTL
     DEF Spec
<1> QED BY <1>1, <1>2, LayoutInvariant, PTL

=============================================================================
