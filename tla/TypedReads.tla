----------------------------- MODULE TypedReads -----------------------------
(***************************************************************************)
(* A client lists a table page by page with execute_typed_read, while rows *)
(* are written and segments merged between its pages. Each page plans a    *)
(* collector, spreads it over ranges of the searcher's segments, collects  *)
(* every range into a bounded buffer, merges the buffers, cuts the window  *)
(* and hands out a cursor.                                                 *)
(*                                                                         *)
(* A document has a primary key and one more column, `val', whose type,    *)
(* nullability and indexing come from Cases. Keys and values are numbers   *)
(* of which only the order matters.                                        *)
(***************************************************************************)
EXTENDS SegmentRanges

CONSTANTS Keys, Values, Null,
          Cases,               \* pairs of a column definition and a request
          BlockSlack,          \* 10 in the source: capacity of a block buffer over top_n
          MaterializedSlack,   \* 2 in the source
          Targets,             \* target_segments of optimize calls
          MaxWrites            \* bound: writes and merges during a listing

\* Keys are numbered in the order of the first documents. A request for no rows
\* is answered without a search.
ASSUME ListingAssumption ==
  /\ IsFiniteSet(Keys) /\ Keys # {} /\ Keys = 1..Cardinality(Keys)
  /\ Values \subseteq Int /\ Null \notin Int
  /\ {BlockSlack, MaterializedSlack, MaxWrites} \subseteq Nat
  /\ Targets \subseteq Nat \ {0}
  /\ \A c \in Cases :
       /\ {c.def.nullable, c.def.indexed, c.req.minScore, c.req.showScore} \subseteq BOOLEAN
       /\ c.req.limit \in Nat \ {0}
       /\ c.req.order \in Seq([key : {"pk", "val", "_score"}, asc : BOOLEAN])

VARIABLES plan,      \* the planned request, the same for every page of a listing
          segments,  \* what the reader shows: sequences of documents
          phase,     \* idle: the client asks next; collecting; done
          searcher,  \* the snapshot the current page reads
          tasks,     \* the ranges planned for it
          fruits,    \* what each finished task of the page harvested
          after,     \* search_after of the current page, <<>> for none
          next,      \* next_search_after of the last page
          page,      \* rows of the last page
          seen,      \* rows of all pages of this listing, in order
          start,     \* ghost: live rows when the listing began
          touched,   \* ghost: keys written since then
          writes

vars == <<plan, segments, phase, searcher, tasks, fruits, after, next, page, seen, start,
          touched, writes>>

Doc(k, v) == [pk |-> k, val |-> v, live |-> TRUE]

\* The members of a finite set in the order a relation on it gives them.
Sorted(S, before) ==
  [n \in 1..Cardinality(S) |->
     CHOOSE a \in S : Cardinality({b \in S : <<b, a>> \in before}) = n - 1]

LiveRows(segs) ==
  {d \in UNION {Range(segs[s]) : s \in DOMAIN segs} : d.live}

\* External: BM25 of the request's text query, a function of the document.
Score(d) == d.pk % 2
MinScore == 1

---------------------------------------------------------------------------
(* Planning: which collector runs, in which order, with or without cursor. *)

DataType(def, key) == IF key = "pk" THEN "Integer" ELSE def.type

\* stable_typed_order
StableTypedOrder(r) ==
  IF r.order = <<>> \/ \E i \in DOMAIN r.order : r.order[i].key \in {"_score", "pk"}
  THEN r.order
  ELSE Append(r.order, [key |-> "pk", asc |-> TRUE])

\* typed_native_sort is Some
NativeSort(def, r, order) ==
  /\ ~r.minScore /\ ~r.showScore
  /\ order # <<>>
  /\ \A i \in DOMAIN order : /\ order[i].key # "_score"
                             /\ DataType(def, order[i].key) \notin {"Ip", "Json"}

\* typed_scored_sort is Some
ScoredSort(def, r, order) ==
  /\ \/ r.minScore
     \/ order # <<>> /\ order # <<[key |-> "_score", asc |-> FALSE]>>
  /\ \A i \in DOMAIN order :
       order[i].key = "_score" \/ DataType(def, order[i].key) # "Json"

BlockTopKSupported(def, order) ==
  Len(order) \in 1..2 /\ \A i \in DOMAIN order : DataType(def, order[i].key) = "Integer"

RequiresFullScan(order) == \E i \in DOMAIN order : order[i].asc \/ order[i].key # "_score"

Collector(def, r, order) ==
  IF NativeSort(def, r, order)
  THEN IF BlockTopKSupported(def, order) THEN "block" ELSE "native"
  ELSE IF ScoredSort(def, r, order) THEN "scored"
  ELSE IF RequiresFullScan(order) THEN "materialized"
  ELSE IF r.scoring THEN "score" ELSE "doc_order"

\* cursor_pagination_enabled
CursorPaginationEnabled(def, r, order) ==
  /\ r.order # <<>> /\ NativeSort(def, r, order)
  /\ \A i \in DOMAIN order : order[i].key = "pk" \/ (def.indexed /\ ~def.nullable)

\* What execute_typed_read decides before it touches a document. Tantivy's
\* TopDocs by score sorts by descending score; without scores the documents
\* come in their own order.
Plan(def, r) ==
  LET order == StableTypedOrder(r)
      collector == Collector(def, r, order)
  IN  [type |-> def.type, nullable |-> def.nullable, minScore |-> r.minScore,
       limit |-> r.limit, collector |-> collector,
       cursor |-> CursorPaginationEnabled(def, r, order),
       order |-> CASE collector = "score"     -> <<[key |-> "_score", asc |-> FALSE]>>
                   [] collector = "doc_order" -> <<>>
                   [] OTHER                   -> order]

\* Without a cursor the client pages by offset.
Offset == IF plan.cursor THEN 0 ELSE Len(seen)

\* One row more than asked for tells whether there is a next page.
TopN == plan.limit + (IF plan.cursor THEN 1 ELSE 0) + Offset

---------------------------------------------------------------------------
(* Keys of hits and their order.                                           *)

Value(d, key) ==
  CASE key = "pk" -> d.pk [] key = "val" -> d.val [] key = "_score" -> Score(d)

Less(l, r) == l # Null /\ (r = Null \/ l < r)

\* Text sorts by its ordinal in the dictionary of the segment, which has the
\* terms of deleted documents too; other types by their value.
SegmentValue(seg, d, key) ==
  LET dictionary == {c.val : c \in Range(seg)} \ {Null}
  IN  IF key = "val" /\ plan.type = "Text" /\ d.val # Null
      THEN Cardinality({v \in dictionary : v < d.val})
      ELSE Value(d, key)

SegmentKeys(seg, d) == [i \in DOMAIN plan.order |-> SegmentValue(seg, d, plan.order[i].key)]

GlobalKeys(d) == [i \in DOMAIN plan.order |-> Value(d, plan.order[i].key)]

AddressBefore(a, b) == a[1] < b[1] \/ (a[1] = b[1] /\ a[2] < b[2])

\* output_order: the first differing key decides, then the address.
Before(a, b) ==
  LET differ == {i \in DOMAIN plan.order : a.keys[i] # b.keys[i]}
      first  == Min(differ)
  IN  IF differ = {} THEN AddressBefore(a.address, b.address)
      ELSE IF plan.order[first].asc THEN Less(a.keys[first], b.keys[first])
           ELSE Less(b.keys[first], a.keys[first])

Precedes(hits) == {p \in hits \X hits : Before(p[1], p[2])}

Best(hits, n) == {h \in hits : Cardinality({g \in hits : Before(g, h)}) < n}

\* Mutant: rows that tie with the boundary are taken as listed already.
AfterCursorNoTies(d) ==
  \/ after = <<>>
  \/ IF plan.order[1].asc THEN Less(after[1], Value(d, plan.order[1].key))
     ELSE Less(Value(d, plan.order[1].key), after[1])

\* The lexicographic boundary of filter_after_cursor.
AfterCursor(d) ==
  \/ after = <<>>
  \/ \E i \in DOMAIN plan.order :
       /\ \A j \in 1..(i - 1) : Value(d, plan.order[j].key) = after[j]
       /\ IF plan.order[i].asc THEN Less(after[i], Value(d, plan.order[i].key))
          ELSE Less(Value(d, plan.order[i].key), after[i])

\* min_score is honoured by the scored collector only; a request with one that
\* cannot be scored sorts materialized rows and ignores it.
Matches(d) ==
  /\ d.live
  /\ AfterCursor(d)
  /\ plan.collector = "scored" /\ plan.minScore => Score(d) >= MinScore

---------------------------------------------------------------------------
(* Bounded buffers.                                                        *)

NoHit == [keys |-> <<>>, address |-> <<>>]

Truncate(buffer) ==
  LET kept == Best(buffer.hits, TopN)
  IN  IF Cardinality(buffer.hits) <= TopN THEN buffer
      ELSE [hits |-> kept,
            threshold |-> CHOOSE h \in kept : \A g \in kept : g = h \/ Before(g, h)]

Capacity(slack) == Max({TopN, 1}) * slack

\* BufferedTopK::push
PushBlock(buffer, hit) ==
  LET room == IF Cardinality(buffer.hits) = Capacity(BlockSlack)
              THEN Truncate(buffer) ELSE buffer
  IN  IF TopN = 0 \/ (buffer.threshold # NoHit /\ ~Before(hit, buffer.threshold))
      THEN buffer
      ELSE [room EXCEPT !.hits = @ \cup {hit}]

\* BufferedSegmentScoredTopK::push, after the check of min_score (in Matches)
PushScored(buffer, hit) == PushBlock(buffer, hit)

\* MaterializedBuffer::push
PushMaterialized(buffer, hit) ==
  LET full == [buffer EXCEPT !.hits = @ \cup {hit}]
  IN  IF Cardinality(full.hits) = Capacity(MaterializedSlack)
      THEN [Truncate(full) EXCEPT !.threshold = NoHit] ELSE full

\* A hit as its collector sees it, with the keys its segment sorts by.
Hit(t, i) ==
  LET seg == searcher[t.seg]
  IN  [keys    |-> IF plan.collector \in {"native", "scored"}
                   THEN SegmentKeys(seg, seg[i]) ELSE GlobalKeys(seg[i]),
       address |-> <<t.seg, i>>]

\* Each of the three collectors with a buffer has its push.
Push(buffer, hit) ==
  CASE plan.collector = "block"        -> PushBlock(buffer, hit)
    [] plan.collector = "scored"       -> PushScored(buffer, hit)
    [] plan.collector = "materialized" -> PushMaterialized(buffer, hit)

EmptyBuffer == [hits |-> {}, threshold |-> NoHit]

\* The matching documents of a range pushed in document order, then finish.
Buffered(t) ==
  LET buffer[n \in 0..(t.to - t.from)] ==
        IF n = 0 THEN EmptyBuffer
        ELSE IF Matches(searcher[t.seg][t.from + n])
             THEN Push(buffer[n - 1], Hit(t, t.from + n))
             ELSE buffer[n - 1]
  IN  Truncate(buffer[t.to - t.from]).hits

\* The matching documents of a range.
Visited(t) == {Hit(t, i) : i \in {j \in (t.from + 1)..t.to : Matches(searcher[t.seg][j])}}

\* TopDocs of Tantivy keeps the greatest hits of a comparator: ReverseNoneLower
\* for an ascending column, NaturalNoneHigher for a descending one.
NativeBefore(a, b) ==
  LET differ == {i \in DOMAIN plan.order : a.keys[i] # b.keys[i]}
      l == a.keys[Min(differ)]
      r == b.keys[Min(differ)]
  IN  IF differ = {} THEN AddressBefore(a.address, b.address)
      ELSE IF plan.order[Min(differ)].asc THEN r = Null \/ (l # Null /\ l < r)
           ELSE l = Null \/ (r # Null /\ r < l)

NativeTopK(t) ==
  {h \in Visited(t) : Cardinality({g \in Visited(t) : NativeBefore(g, h)}) < TopN}

\* No order, or the order of scores alone.
DocOrderTopK(t) == Best(Visited(t), TopN)

Collected(t) ==
  CASE plan.collector \in {"block", "scored", "materialized"} -> Buffered(t)
    [] plan.collector = "native" -> NativeTopK(t)
    [] OTHER -> DocOrderTopK(t)

\* Mutant: the ordinals of different dictionaries are compared with each other.
HarvestOrdinals(t) == Collected(t)

\* What a task returns: dictionary ordinals become values.
Harvest(t) ==
  LET doc(h) == searcher[h.address[1]][h.address[2]]
  IN  {[h EXCEPT !.keys = GlobalKeys(doc(h))] : h \in Collected(t)}

\* Block and materialized collectors use ranges; the others a task per segment.
PlannedTasks(segs) ==
  LET sizes == [s \in DOMAIN segs |-> Len(segs[s])]
  IN  IF plan.collector \in {"block", "materialized"} THEN SearcherDocRanges(sizes, Workers)
      ELSE {[seg |-> s, from |-> 0, to |-> sizes[s]] : s \in DOMAIN segs}

LoadRow(address) ==
  LET d == searcher[address[1]][address[2]] IN [pk |-> d.pk, val |-> d.val]

\* merge_fruits: all hits sorted again, cut to top_n, without the offset.
Merged ==
  LET best == Best(UNION {fruits[t] : t \in DOMAIN fruits}, TopN)
      sorted == Sorted(best, Precedes(best))
      rows == [i \in DOMAIN sorted |-> LoadRow(sorted[i].address)]
  IN  SubSeq(rows, Offset + 1, Len(rows))

\* Mutant: later pages hand out the boundary they were asked with.
CursorValuesEchoed(row) ==
  IF after # <<>> THEN after ELSE [i \in DOMAIN plan.order |-> Value(row, plan.order[i].key)]

CursorValues(row) == [i \in DOMAIN plan.order |-> Value(row, plan.order[i].key)]

---------------------------------------------------------------------------

Layouts ==
  LET rows == [Keys -> IF plan.nullable THEN Values \cup {Null} ELSE Values]
      docs(r) == [i \in 1..Cardinality(Keys) |-> Doc(i, r[i])]
      cut(r, n) == IF n = Cardinality(Keys) THEN <<docs(r)>>
                   ELSE <<SubSeq(docs(r), 1, n), SubSeq(docs(r), n + 1, Cardinality(Keys))>>
  IN  {cut(r, n) : r \in rows, n \in {Cardinality(Keys) - 1, Cardinality(Keys)}}

Init ==
  /\ \E c \in Cases : plan = Plan(c.def, c.req)
  /\ segments \in Layouts
  /\ phase = "idle" /\ searcher = <<>> /\ tasks = {} /\ fruits = <<>>
  /\ after = <<>> /\ next = <<>> /\ page = <<>> /\ seen = <<>>
  /\ start = LiveRows(segments) /\ touched = {} /\ writes = 0

\* The client asks for a page: reader.searcher(), planning, tasks handed out.
Start ==
  /\ phase = "idle"
  /\ searcher' = segments
  /\ tasks' = PlannedTasks(segments)
  /\ after' = next
  /\ fruits' = <<>>
  /\ phase' = "collecting"
  /\ UNCHANGED <<plan, segments, next, page, seen, start, touched, writes>>

\* One worker collects one range, in any order with the others.
Collect(t) ==
  /\ phase = "collecting" /\ t \notin DOMAIN fruits
  /\ \E hits \in {Harvest(t)} :
       fruits' = [u \in DOMAIN fruits \cup {t} |-> IF u = t THEN hits ELSE fruits[u]]
  /\ UNCHANGED <<plan, segments, phase, searcher, tasks, after, next, page, seen, start, touched,
                 writes>>

\* merge_fruits and project_typed_rows. The listing ends without a next cursor,
\* or, paged by offset, with a page that is not full.
Finish ==
  /\ phase = "collecting" /\ DOMAIN fruits = tasks
  /\ \E source \in {Merged} :
       LET more == plan.cursor /\ Len(source) > plan.limit
           rows == SubSeq(source, 1, Min({plan.limit, Len(source)}))
       IN  /\ page' = rows
           /\ seen' = seen \o rows
           /\ next' = IF more
                      THEN CursorValues(rows[plan.limit]) ELSE <<>>
           /\ phase' = IF more \/ (~plan.cursor /\ Len(rows) = plan.limit)
                       THEN "idle" ELSE "done"
  /\ UNCHANGED <<plan, segments, searcher, tasks, fruits, after, start, touched, writes>>

\* The client lists the table again from the beginning.
Again ==
  /\ phase = "done"
  /\ phase' = "idle" /\ page' = <<>> /\ seen' = <<>> /\ next' = <<>>
  /\ after' = <<>> /\ searcher' = <<>> /\ tasks' = {} /\ fruits' = <<>>
  /\ start' = LiveRows(segments) /\ touched' = {}
  /\ UNCHANGED <<plan, segments, writes>>

Kill(k) == [s \in DOMAIN segments |->
              [i \in DOMAIN segments[s] |->
                 IF segments[s][i].pk = k THEN [segments[s][i] EXCEPT !.live = FALSE]
                 ELSE segments[s][i]]]

Written(k) ==
  /\ writes < MaxWrites /\ writes' = writes + 1
  /\ touched' = touched \cup {k}
  /\ UNCHANGED <<plan, phase, searcher, tasks, fruits, after, next, page, seen, start>>

\* A commit: the documents of the key are deleted, the new one is in a segment of its own.
Upsert(k, v) ==
  /\ v # Null \/ plan.nullable
  /\ segments' = Append(Kill(k), <<Doc(k, v)>>)
  /\ Written(k)

Delete(k) == segments' = Kill(k) /\ Written(k)

NumDocs(s) == Cardinality({i \in DOMAIN segments[s] : segments[s][i].live})

\* Segments in descending order of live documents; ties in any order.
MergeOrders ==
  {o \in SetToSeqs(DOMAIN segments) :
     \A i \in 1..(Len(o) - 1) : NumDocs(o[i]) >= NumDocs(o[i + 1])}

\* Mutant: one group too many.
BalancedMergeGroupsLoose(order, target) ==
  LET n == target + 1
  IN  IF Len(order) <= n THEN [i \in DOMAIN order |-> <<order[i]>>]
      ELSE [i \in 1..n |-> IF i < n THEN <<order[i]>> ELSE SubSeq(order, n, Len(order))]

\* The next segment goes to the smallest group (min_by_key: the first one).
AddToGroup(groups, s) ==
  LET smaller(g, h) == \/ g.docs < h.docs
                       \/ g.docs = h.docs /\ Len(g.ids) < Len(h.ids)
      smallest == CHOOSE i \in DOMAIN groups :
                    \A j \in DOMAIN groups :
                      j = i \/ smaller(groups[i], groups[j])
                      \/ (~smaller(groups[j], groups[i]) /\ i < j)
  IN  [groups EXCEPT ![smallest] = [docs |-> @.docs + NumDocs(s), ids |-> Append(@.ids, s)]]

BalancedMergeGroups(order, target) ==
  LET filled[n \in 0..Len(order)] ==
        IF n = 0 THEN [i \in 1..target |-> [docs |-> 0, ids |-> <<>>]]
        ELSE AddToGroup(filled[n - 1], order[n])
  IN  IF Len(order) <= target THEN [i \in DOMAIN order |-> <<order[i]>>]
      ELSE [i \in 1..target |-> filled[Len(order)][i].ids]

\* External: a merge keeps the live documents in the order of segments and documents.
MergedSegment(ids) ==
  LET doc(a) == segments[ids[a[1]]][a[2]]
      live   == {a \in UNION {{n} \X DOMAIN segments[ids[n]] : n \in DOMAIN ids} : doc(a).live}
      sorted == Sorted(live, {p \in live \X live : AddressBefore(p[1], p[2])})
  IN  [i \in DOMAIN sorted |-> doc(sorted[i])]

Ascending(S) == Sorted(S, {p \in S \X S : p[1] < p[2]})

\* Groups of two and more are merged. External: a merge without a live document
\* leaves no segment.
Optimized(groups) ==
  LET single == Ascending({s \in DOMAIN segments : \E g \in DOMAIN groups : groups[g] = <<s>>})
      merged == Ascending({g \in DOMAIN groups :
                             Len(groups[g]) > 1 /\ MergedSegment(groups[g]) # <<>>})
  IN  [i \in DOMAIN single |-> segments[single[i]]]
        \o [i \in DOMAIN merged |-> MergedSegment(groups[merged[i]])]

\* optimize_table_with_options; the reader reloads.
Optimize(target) ==
  /\ writes < MaxWrites /\ writes' = writes + 1
  /\ \E order \in MergeOrders : segments' = Optimized(BalancedMergeGroups(order, target))
  /\ UNCHANGED <<plan, phase, searcher, tasks, fruits, after, next, page, seen, start, touched>>

Next ==
  \/ Start
  \/ \E t \in tasks : Collect(t)
  \/ Finish
  \/ Again
  \/ \E k \in Keys, v \in Values \cup {Null} : Upsert(k, v)
  \/ \E k \in Keys : Delete(k)
  \/ \E n \in Targets : Optimize(n)

Spec == Init /\ [][Next]_vars

---------------------------------------------------------------------------

(***************************************************************************)
(* Workers split a segment without losing or repeating a document: every   *)
(* document of the searcher lies in exactly one planned task               *)
(* (segment_ranges.rs, whatever the pool size and the segment sizes).      *)
(***************************************************************************)
RangesPartition ==
  phase = "collecting" =>
    \A s \in DOMAIN searcher : \A i \in DOMAIN searcher[s] :
      Cardinality({t \in tasks : t.seg = s /\ t.from < i /\ i <= t.to}) = 1

\* All matching rows of the snapshot, in the requested order.
Reference ==
  LET hits == {[keys |-> GlobalKeys(searcher[a[1]][a[2]]), address |-> a] :
                 a \in {a \in UNION {{<<s, i>> : i \in DOMAIN searcher[s]} :
                                       s \in DOMAIN searcher} :
                          Matches(searcher[a[1]][a[2]])}}
      sorted == Sorted(hits, Precedes(hits))
  IN  [i \in DOMAIN sorted |-> LoadRow(sorted[i].address)]

(***************************************************************************)
(* Bounded, parallel, per-segment collection loses nothing: whatever       *)
(* collector, buffer and split a page uses, its rows are the requested     *)
(* window of all matching rows sorted in one piece (block_top_k.rs,        *)
(* scored_top_k.rs, materialized_top_k.rs, doc_order.rs).                  *)
(***************************************************************************)
PageIsWindow ==
  phase # "collecting" /\ page # <<>> =>
    LET from == Len(seen) - Len(page)
        all  == Reference
    IN  IF plan.cursor THEN page = SubSeq(all, 1, Min({plan.limit, Len(all)}))
        ELSE page = SubSeq(all, from + 1, Min({from + plan.limit, Len(all)}))

(***************************************************************************)
(* Keyset pages under concurrent writes and merges: a row nobody touches   *)
(* during the listing is never returned twice, and has been returned once  *)
(* the cursor has run out (cursor.rs; API.md calls it a live cursor).      *)
(***************************************************************************)
UntouchedOnce ==
  plan.cursor =>
    \A k \in {d.pk : d \in start} \ touched :
      LET times == Cardinality({i \in DOMAIN seen : seen[i].pk = k})
      IN  times <= 1 /\ (phase = "done" => times = 1)

\* A key has at most one live document.
OneLiveDocument(segs) ==
  \A s, u \in DOMAIN segs : \A i \in DOMAIN segs[s], j \in DOMAIN segs[u] :
    segs[s][i].live /\ segs[u][j].live /\ segs[s][i].pk = segs[u][j].pk => s = u /\ i = j

(***************************************************************************)
(* Optimize leaves at most the target number of segments, as its comment   *)
(* promises, and every live row exactly once (optimize.rs).                *)
(***************************************************************************)
OptimizeKeepsRows ==
  [][\A n \in Targets : Optimize(n) =>
       /\ Len(segments') <= n
       /\ LiveRows(segments') = LiveRows(segments)
       /\ OneLiveDocument(segments')
    ]_vars

(***************************************************************************)
(* Every page that promises another one moves its boundary strictly        *)
(* forward in the sort order, whatever was written meanwhile, so a listing *)
(* cannot repeat a page for ever (cursor_values, filter_after_cursor).     *)
(***************************************************************************)
CursorAdvances ==
  [][phase = "collecting" /\ phase' = "idle" /\ plan.cursor =>
       \/ after = <<>>
       \/ \E i \in DOMAIN plan.order :
            /\ \A j \in 1..(i - 1) : next'[j] = after[j]
            /\ IF plan.order[i].asc THEN after[i] < next'[i] ELSE next'[i] < after[i]
    ]_vars

=============================================================================
