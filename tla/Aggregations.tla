---------------------------- MODULE Aggregations ----------------------------
(***************************************************************************)
(* Requests over one published snapshot: reads by filter, facets, grouped  *)
(* rows (src/query/typed_aggregation.rs), named aggregations spread over   *)
(* the worker pool (src/aggregation_api/executor.rs) and intermediate      *)
(* results of several shards (src/aggregation_api.rs). Tasks end in any    *)
(* order, and any of them may exceed the memory limit.                     *)
(*                                                                         *)
(* An aggregate is a function from group keys to [docs, count, max], the   *)
(* number of documents, of values of the metric column and, as a set, the  *)
(* largest value. No range has more buckets than Tantivy keeps per segment *)
(* (ten times the requested number), so only final results are cut.        *)
(***************************************************************************)
EXTENDS Filters, SegmentRanges

CONSTANTS Layouts,        \* sets of segments: sequences of sequences of [doc, alive]
          Requests,
          OtherAggs       \* aggregations of a request that a shard was sent earlier

VARIABLES segments, request, phase, tasks, results, answer

vars == <<segments, request, phase, tasks, results, answer>>

NULL       == 1000   \* the key of rows without a value: after every value (compare_json)
MaxBuckets == 65000
Failed     == [failed |-> TRUE]
Error      == [kind |-> "error"]

Entries == UNION {{<<s, i>> : i \in DOMAIN segments[s]} : s \in DOMAIN segments}
Doc(e)   == segments[e[1]][e[2]].doc
Alive(e) == segments[e[1]][e[2]].alive

\* dynamic_column_handles of every segment: the types a path has anywhere.
Observed == [p \in {"j"} \X {"p", "q"} |->
               {Doc(e)[p[1]][p[2]].type : e \in {x \in Entries : /\ p[1] \in DOMAIN Doc(x)
                                                                 /\ p[2] \in DOMAIN Doc(x)[p[1]]}}]

Accepted(filter, kinds) ==
  \A f \in filter : ValidateFilterPaths(f, Observed) /\ Compiles(f, kinds)

\* collect_matching_docs_in_range: documents the weight matches that are alive.
Matching(entries, q) == {e \in entries : Alive(e) /\ Matches(q, Doc(e))}

InRange(r) == {e \in Entries : e[1] = r.seg /\ e[2] > r.from /\ e[2] <= r.to}

Ranges == SearcherDocRanges([s \in DOMAIN segments |-> Len(segments[s])], Workers)

---------------------------------------------------------------------------
(* Aggregates.                                                             *)

\* terms with "missing": the sentinel, back to NULL by normalize_group_key.
GroupKey(doc, groups) ==
  [i \in DOMAIN groups |-> IF groups[i] \in DOMAIN doc THEN doc[groups[i]] ELSE NULL]

Metrics(entries, c) ==
  LET values == {e \in entries : c \in DOMAIN Doc(e)}
  IN  [docs |-> Cardinality(entries), count |-> Cardinality(values),
       max |-> IF values = {} THEN {} ELSE {Max({Doc(e)[c] : e \in values})}]

\* Without groups there is one bucket, also of no documents.
Grouped(entries, groups, c) ==
  LET keys == IF groups = <<>> THEN {<<>>} ELSE {GroupKey(Doc(e), groups) : e \in entries}
  IN  [k \in keys |-> Metrics({e \in entries : GroupKey(Doc(e), groups) = k}, c)]

\* merge_fruits.
MergeTwo(a, b) ==
  [k \in DOMAIN a \cup DOMAIN b |->
     IF k \notin DOMAIN a THEN b[k] ELSE IF k \notin DOMAIN b THEN a[k]
     ELSE [docs |-> a[k].docs + b[k].docs, count |-> a[k].count + b[k].count,
           max |-> LET both == a[k].max \cup b[k].max IN IF both = {} THEN {} ELSE {Max(both)}]]

MergeFruits(fruits) == FoldLeft(MergeTwo, <<>>, fruits)

\* A named aggregation: the terms of a column, where documents without a value
\* are in no bucket, or a filter with the number of documents it matches.
Named(agg, entries) ==
  IF agg.kind = "terms"
  THEN Grouped({e \in entries : agg.column \in DOMAIN Doc(e)}, <<agg.column>>, agg.column)
  ELSE Grouped(Matching(entries, CompileAggregationFilter(agg.filter)), <<>>, "id")

\* aggregation_json, the query builder of filters and the JSON paths inside them.
AggCompiles(agg) ==
  IF agg.kind = "terms" THEN agg.column \in DOMAIN Definition
  ELSE Accepted({agg.filter}, AggregationKinds)

Aggregated(r, entries) ==
  IF r.kind = "typed" THEN Grouped(entries, r.groups, r.metric)
  ELSE [n \in DOMAIN r.aggs |-> Named(r.aggs[n], entries)]

MergeAggregated(r, fruits) ==
  IF r.kind = "typed" THEN MergeFruits(fruits)
  ELSE [n \in DOMAIN r.aggs |-> MergeFruits([i \in DOMAIN fruits |-> fruits[i][n]])]

---------------------------------------------------------------------------
(* Grouped rows.                                                           *)

Requested(r) == Min({Max({r.limit + r.offset, 1}), MaxBuckets})

\* Mutant: the rows before the page are forgotten.
TypedBucketPlanNoOffset(r) ==
  [size |-> Max({r.limit, 1}), by |-> IF r.order = <<>> THEN "docs" ELSE r.order[1].key,
   asc |-> r.order # <<>> /\ r.order[1].asc]

\* typed_bucket_plan. Without an order Tantivy's own: the number of documents,
\* largest first. A nullable group key or several keys are sorted afterwards.
TypedBucketPlan(r) ==
  CASE r.order = <<>> -> [size |-> Requested(r), by |-> "docs", asc |-> FALSE]
    [] /\ Len(r.groups) = 1 /\ Len(r.order) = 1
       /\ r.order[1].key = "key" => ~Definition[r.groups[1]].nullable ->
         [size |-> Requested(r), by |-> r.order[1].key, asc |-> r.order[1].asc]
    [] OTHER -> [size |-> MaxBuckets, by |-> "docs", asc |-> FALSE]

\* Sort keys: the first group column or the number of values.
SortValue(key, k, m) == CASE key = "key" -> k[1] [] key = "count" -> m.count [] key = "docs" -> m.docs

Level(k, i) == SubSeq(k, 1, i)

\* The bucket of a prefix of a key.
BucketOf(buckets, p) ==
  LET below == {k \in DOMAIN buckets : Level(k, Len(p)) = p}
      sum(f(_)) == FoldSet(LAMBDA k, n : n + f(buckets[k]), 0, below)
  IN  [docs |-> sum(LAMBDA m : m.docs), count |-> sum(LAMBDA m : m.count)]

\* Tantivy keeps, under each bucket it keeps, the first size buckets of the next level.
CutTo(plan, buckets, kept) ==
  \A k \in kept :
    \A i \in DOMAIN k :
      LET siblings == {Level(o, i) : o \in {x \in DOMAIN buckets : Level(x, i - 1) = Level(k, i - 1)}}
          chosen   == {Level(o, i) : o \in kept} \cap siblings
          value(p) == SortValue(plan.by, p, BucketOf(buckets, p))
      IN  /\ Cardinality(chosen) = Min({plan.size, Cardinality(siblings)})
          /\ \A p \in chosen, q \in siblings \ chosen :
               IF plan.asc THEN value(p) <= value(q) ELSE value(p) >= value(q)

\* sort_projected: whether one row must come before another.
RowBefore(order, buckets, a, b) ==
  LET value(i, k) == SortValue(order[i].key, k, buckets[k])
      before(i) == IF order[i].asc THEN value(i, a) < value(i, b) ELSE value(i, a) > value(i, b)
  IN  \E i \in DOMAIN order : before(i) /\ \A j \in 1..(i - 1) : value(j, a) = value(j, b)

Sorted(order, buckets, rows) ==
  \A i, j \in DOMAIN rows : i < j => ~RowBefore(order, buckets, rows[j], rows[i])

\* Tantivy may return buckets that are equal in the order in any order.
Pages(r, buckets) ==
  LET plan  == TypedBucketPlan(r)
      keeps == IF r.groups = <<>> THEN {DOMAIN buckets}
               ELSE {kept \in SUBSET DOMAIN buckets : /\ kept = {} <=> DOMAIN buckets = {}
                                                      /\ CutTo(plan, buckets, kept)}
      page(rows) == SubSeq(rows, r.offset + 1, Min({r.offset + r.limit, Len(rows)}))
  IN  UNION {{page(rows) : rows \in {x \in SetToSeqs(kept) : Sorted(r.order, buckets, x)}} :
               kept \in keeps}

---------------------------------------------------------------------------
(* Requests.                                                               *)

Answer(a) == answer' = a /\ phase' = "answered" /\ UNCHANGED <<segments, request, tasks, results>>

AsRows(r, buckets, page) ==
  [kind |-> "rows", keys |-> page, values |-> [i \in DOMAIN page |-> buckets[page[i]]]]

\* compile_filter refuses the filter or the paths in it.
Refuse ==
  /\ phase = "asked" /\ request.kind # "facets"
  /\ \/ ~Accepted(request.filter, SearchKinds)
     \/ request.kind \in {"named", "shards"} /\ \E n \in DOMAIN request.aggs : ~AggCompiles(request.aggs[n])
  /\ Answer(Error)

Ready(kind) == phase = "asked" /\ request.kind = kind /\ Accepted(request.filter, SearchKinds)

\* The scores and documents of a search.
Read ==
  /\ Ready("read")
  /\ LET q == CompileFilter(request.filter)
     IN  Answer([kind |-> "hits", scores |-> [e \in Matching(Entries, q) |-> Score(q, Doc(e))]])

\* collect_facets, with exclude_own_filter.
CollectFacets ==
  /\ phase = "asked" /\ request.kind = "facets"
  /\ LET filter == UNION {FilterWithoutColumn(f, request.column) : f \in request.filter}
     IN  IF Accepted(filter, SearchKinds)
         THEN Answer([kind |-> "facets", counted |-> Matching(Entries, CompileFilter(filter))])
         ELSE Answer(Error)

RowCount(r) == r.kind = "typed" /\ r.groups = <<>> /\ r.metric = "id" /\ r.only

\* typed_row_count_strategy and collect_fast_row_count: the number of live documents
\* of the searcher, or a count of the matches.
CollectFastRowCount ==
  /\ Ready("typed") /\ RowCount(request)
  /\ LET n == IF request.filter = {} THEN Cardinality({e \in Entries : Alive(e)})
              ELSE Cardinality(Matching(Entries, CompileFilter(request.filter)))
         page == IF request.offset = 0 /\ request.limit > 0 THEN << <<>> >> ELSE <<>>
     IN  Answer([kind |-> "rows", keys |-> page, values |-> [i \in DOMAIN page |-> [count |-> n]]])

\* Names by position: the map of aggregations is ordered by name.
PartitionAggregations(aggs, workers) ==
  {{n \in DOMAIN aggs : (n - 1) % workers = w} : w \in 0..(workers - 1)}

\* Ranges when there are two or more; otherwise named aggregations are dealt to
\* the workers and grouped rows are searched by one.
Plan ==
  /\ phase = "asked" /\ request.kind \in {"typed", "named"}
  /\ Accepted(request.filter, SearchKinds)
  /\ request.kind = "named" => \A n \in DOMAIN request.aggs : AggCompiles(request.aggs[n])
  /\ ~RowCount(request)
  /\ LET workers == Max({1, Min({Workers, Len(request.aggs)})})
     IN  \/ Cardinality(Ranges) >= 2 /\ phase' = "ranges" /\ tasks' = Ranges
         \/ /\ Cardinality(Ranges) < 2 /\ request.kind = "named" /\ workers > 1
            /\ phase' = "dealt" /\ tasks' = PartitionAggregations(request.aggs, workers)
         \/ /\ Cardinality(Ranges) < 2 /\ (request.kind = "typed" \/ workers = 1)
            /\ phase' = "serial" /\ tasks' = {}
  /\ UNCHANGED <<segments, request, results, answer>>

\* for_segment, collect_block and harvest over one range.
CollectRange(r, ok) ==
  /\ phase = "ranges" /\ r \in tasks \ DOMAIN results
  /\ LET fruit == Aggregated(request, Matching(InRange(r), CompileFilter(request.filter)))
     IN  results' = [t \in DOMAIN results \cup {r} |->
                       IF t = r THEN (IF ok THEN [fruit |-> fruit] ELSE Failed) ELSE results[t]]
  /\ UNCHANGED <<segments, request, phase, tasks, answer>>

CollectGroup(g, ok) ==
  /\ phase = "dealt" /\ g \in tasks \ DOMAIN results
  /\ LET entries == Matching(Entries, CompileFilter(request.filter))
         fruit == [n \in g |-> Named(request.aggs[n], entries)]
     IN  results' = [t \in DOMAIN results \cup {g} |->
                       IF t = g THEN (IF ok THEN [fruit |-> fruit] ELSE Failed) ELSE results[t]]
  /\ UNCHANGED <<segments, request, phase, tasks, answer>>

Finish(buckets) ==
  IF request.kind = "typed"
  THEN \E page \in Pages(request, buckets) : Answer(AsRows(request, buckets, page))
  ELSE Answer([kind |-> "named", fruits |-> buckets])

\* The results of all tasks are in; one that exceeded the memory limit sends the
\* whole request to a serial search with fresh limits.
MergeRanges ==
  /\ phase = "ranges" /\ DOMAIN results = tasks
  /\ IF \E t \in tasks : results[t] = Failed
     THEN phase' = "serial" /\ UNCHANGED <<segments, request, tasks, results, answer>>
     ELSE LET order == SetToSeq(tasks)
          IN  Finish(MergeAggregated(request, [i \in DOMAIN order |-> results[order[i]].fruit]))

\* Groups of names have no second try.
CombineGroups ==
  /\ phase = "dealt" /\ DOMAIN results = tasks
  /\ IF \E t \in tasks : results[t] = Failed THEN Answer(Error)
     ELSE Finish([n \in DOMAIN request.aggs |->
                    LET g == CHOOSE t \in tasks : n \in t IN results[g].fruit[n]])

SearchSerially(ok) ==
  /\ phase = "serial"
  /\ IF ok THEN Finish(Aggregated(request, Matching(Entries, CompileFilter(request.filter))))
     ELSE Answer(Error)

\* collect_intermediate: each segment is a shard of its own, which was perhaps sent
\* other aggregations.
CollectIntermediate(s, aggs) ==
  /\ Ready("shards") /\ \A n \in DOMAIN request.aggs : AggCompiles(request.aggs[n])
  /\ s \in DOMAIN segments \ DOMAIN results
  /\ LET entries == Matching({e \in Entries : e[1] = s}, CompileFilter(request.filter))
     IN  results' = [t \in DOMAIN results \cup {s} |->
                       IF t = s THEN [hash |-> aggs, fruit |-> [n \in DOMAIN aggs |-> Named(aggs[n], entries)]]
                       ELSE results[t]]
  /\ UNCHANGED <<segments, request, phase, tasks, answer>>

MergeIntermediates ==
  /\ Ready("shards") /\ DOMAIN results = DOMAIN segments
  /\ IF results = <<>> \/ \E s \in DOMAIN results : results[s].hash # request.aggs
     THEN Answer(Error)
     ELSE Finish(MergeAggregated(request, [s \in DOMAIN segments |-> results[s].fruit]))

---------------------------------------------------------------------------

Init ==
  /\ segments \in Layouts /\ request \in Requests
  /\ phase = "asked" /\ tasks = {} /\ results = <<>> /\ answer = [kind |-> "none"]

Next ==
  \/ Refuse \/ Read \/ CollectFacets \/ CollectFastRowCount \/ Plan
  \/ \E t \in tasks, ok \in BOOLEAN : CollectRange(t, ok) \/ CollectGroup(t, ok)
  \/ MergeRanges \/ CombineGroups
  \/ \E ok \in BOOLEAN : SearchSerially(ok)
  \/ \E s \in DOMAIN segments, aggs \in {request.aggs, OtherAggs} : CollectIntermediate(s, aggs)
  \/ MergeIntermediates

Spec == Init /\ [][Next]_vars

---------------------------------------------------------------------------

\* The live documents of which the filter holds.
Selected(filter) == {e \in Entries : Alive(e) /\ \A f \in filter : Holds(f, Doc(e))}

(***************************************************************************)
(* A search returns exactly the live documents of which its filter holds,  *)
(* for nested negations, NULLs, empty arrays and JSON paths                *)
(* (compile_filter_node_raw, negate, existence_field).                     *)
(***************************************************************************)
HitsAreSelected == answer.kind = "hits" => DOMAIN answer.scores = Selected(request.filter)

(***************************************************************************)
(* Structural predicates and negations restrict without changing scores,   *)
(* wherever they stand among text predicates (compile_filter_node,         *)
(* compile_boolean, filter_contributes_score).                             *)
(***************************************************************************)
FiltersDoNotScore ==
  (answer.kind = "hits" /\ request.filter # {}) =>
    \A e \in DOMAIN answer.scores, f \in request.filter : answer.scores[e] = TextScore(f, Doc(e))

(***************************************************************************)
(* With exclude_own_filter the documents counted do not depend on their    *)
(* value of the facet column, and conjuncts about other columns stay in    *)
(* force (filter_without_column, simplify_boolean).                        *)
(***************************************************************************)
FacetsIgnoreOwnColumn ==
  answer.kind = "facets" =>
    /\ \A d, e \in {x \in Entries : Alive(x)} :
         (\A c \in DOMAIN Definition \ {request.column, "id"} :
            /\ c \in DOMAIN Doc(d) <=> c \in DOMAIN Doc(e)
            /\ c \in DOMAIN Doc(d) => Doc(d)[c] = Doc(e)[c])
         => (d \in answer.counted <=> e \in answer.counted)
    /\ \A f \in request.filter :
         f.kind = "all" =>
           \A i \in DOMAIN f.filters :
             (f.filters[i].kind \in StructuralKinds /\ f.filters[i].column # request.column) =>
               \A e \in answer.counted : Holds(f.filters[i], Doc(e))

Exact(agg, entries) ==
  IF agg.kind = "terms"
  THEN Grouped({e \in entries : agg.column \in DOMAIN Doc(e)}, <<agg.column>>, agg.column)
  ELSE Grouped({e \in entries : Holds(agg.filter, Doc(e))}, <<>>, "id")

RowsAreWindow ==
  LET r       == request
      groups  == Grouped(Selected(r.filter), r.groups, r.metric)
      n       == Cardinality(DOMAIN groups)
      rows    == answer.keys
      position(i) == r.offset + i
  IN  /\ Len(rows) = Max({0, Min({r.limit, n - r.offset})})
      /\ \A i, j \in DOMAIN rows : i # j => rows[i] # rows[j]
      /\ \A i \in DOMAIN rows :
           /\ answer.values[i].count = groups[rows[i]].count
           /\ ~RowCount(r) => answer.values[i] = groups[rows[i]]
           /\ Cardinality({k \in DOMAIN groups : RowBefore(r.order, groups, k, rows[i])}) < position(i)
           /\ Cardinality({k \in DOMAIN groups : RowBefore(r.order, groups, rows[i], k)})
                <= n - position(i)
      /\ Sorted(r.order, groups, rows)

(***************************************************************************)
(* However a request is spread over ranges, workers or shards, in whatever *)
(* order tasks end and whichever run out of memory, an answer has exact    *)
(* groups, NULLs included: the requested window of all groups in their     *)
(* order, every named aggregation once                                     *)
(* (collect_aggregation_results, collect_standard_aggregations,            *)
(* typed_bucket_plan, merge_intermediates).                                *)
(***************************************************************************)
AggregatesExact ==
  /\ answer.kind = "rows" => RowsAreWindow
  /\ answer.kind = "named" =>
       answer.fruits = [n \in DOMAIN request.aggs |-> Exact(request.aggs[n], Selected(request.filter))]

=============================================================================
